---- MODULE Spec2Model ----
(***************************************************************************)
(* AstroEQ firmware (AstroEQ-Firmware/AstroEQ.cpp): the per-axis step      *)
(* engine (timer capture ISRs), the motor controller (motorStart,          *)
(* motorStop, gotoMode, slewMode), the command decoder, the main loop's    *)
(* deferred start and the ST4 pin-change handler.                          *)
(*                                                                         *)
(* One record per axis, mot[a], holds the fields of the cmd structure, the *)
(* global per-axis arrays and the hardware registers and pins the code     *)
(* uses for that axis, under the names the source gives them.  The         *)
(* foreground (main loop + decodeCommand) is one thread with a program     *)
(* counter (fg); the interrupt handlers are atomic actions that may run    *)
(* between any two foreground steps.                                       *)
(***************************************************************************)
EXTENDS Integers, Sequences, FiniteSets, TLC

(***************************************************************************)
(* Bounds of the model                                                     *)
(***************************************************************************)
\* Width in bits of the position words (jVal, gotoPosn, HVal).  The firmware
\* uses unsigned long; the model keeps the modular arithmetic and narrows the
\* word so that wrap-around is reachable.  The positions of the protocol
\* (24 bits of the 32) are one bit narrower than the word.
JValBits == 9
\* Number of entries of the acceleration table (AccelTableLength, defined in
\* a header that is not part of src/).
AccelTableLength == 3
\* Host commands to an axis at rest, host commands to a running axis and ST4
\* pin-change events explored in one behaviour.
MaxHostCmds == 3
MaxLiveCmds == 1
MaxST4Events == 1

JValModulus == 2 ^ JValBits
PosBits == JValBits - 1
PosModulus == 2 ^ PosBits
\* 0x800000, the middle of the protocol's positions
JMid == 2 ^ (PosBits - 1)

Axes == {"RA", "DC"}
Dirs == {"CMD_FORWARD", "CMD_REVERSE"}

\* unsigned int / unsigned long arithmetic
U16(x) == x % 65536
\* a position word that never wraps
ULWide(x) == x

UL(x) == x % JValModulus
\* byte arithmetic (accelTableRepeatsLeft, distributionSegment)
U8(x) == x % 256

Abs(x) == IF x < 0 THEN -x ELSE x

(***************************************************************************)
(* Acceleration tables: AccelTableLength records {speed, repeats}, speed   *)
(* strictly decreasing with the index.                                     *)
(***************************************************************************)
TableIdx == 0 .. (AccelTableLength - 1)
TopPeriod == AccelTableLength + 1
RepeatValues == {0, 1}
AccelTables ==
    { [i \in TableIdx |-> [speed |-> TopPeriod - i, repeats |-> r[i]]] :
        r \in [TableIdx -> RepeatValues] }
\* the table of the specifications that explore one configuration
SpecTables == { [i \in TableIdx |-> [speed |-> TopPeriod - i,
                                     repeats |-> IF i = 0 THEN 1 ELSE 0]] }
\* goto cruise periods: faster than the whole table, inside it, slower than it
GotoSpeeds == 1 .. (TopPeriod + 1)
\* minSpeed: inside the table, its first entry, slower than the table
MinSpeeds == (TopPeriod - 1) .. (TopPeriod + 1)

VARIABLES
    mot,                \* per-axis motion state, registers and pins
    accelTable,         \* cmd.accelTable[axis]
    normalGotoSpeed,    \* cmd.normalGotoSpeed[axis]
    siderealIVal,       \* cmd.siderealIVal[axis]
    gotoDecelerationLength, \* gotoDecelerationLength[axis]
    canJumpToHighspeed, \* canJumpToHighspeed
    encodeDirection,    \* encodeDirection[axis]
    st4,                \* cmd.st4RAIVal, cmd.st4DecIVal, cmd.st4RAReverse
    fg,                 \* the foreground thread: program counter and locals
    hist,               \* per-axis history of the current movement
    budget,             \* the host's behaviour: commands and ST4 events left,
                        \* the axes it addresses
    sys                 \* the globals outside the motion core: progMode,
                        \* driverVersion, microstepConf, cmd.bVal, timerOVF,
                        \* the EEPROM id, the response packet, the main
                        \* loop's mode flags

vars == << mot, accelTable, normalGotoSpeed, siderealIVal,
           gotoDecelerationLength, canJumpToHighspeed, encodeDirection, st4,
           fg, hist, budget, sys >>
\* the configuration the motion core reads, and all that no interrupt writes
engineCfg == << accelTable, normalGotoSpeed, siderealIVal,
                gotoDecelerationLength, canJumpToHighspeed, encodeDirection,
                st4 >>
cfgVars == << engineCfg, sys >>

(***************************************************************************)
(* calculateDecelerationLength                                             *)
(***************************************************************************)
RECURSIVE DecelSteps(_, _, _)
DecelSteps(table, gotoSpeed, lookupTableIndex) ==
    IF lookupTableIndex >= AccelTableLength THEN 0
    ELSE IF table[lookupTableIndex].speed <= gotoSpeed THEN 0
    ELSE table[lookupTableIndex].repeats + 1
         + DecelSteps(table, gotoSpeed, lookupTableIndex + 1)

calculateDecelerationLength(table, gotoSpeed) == DecelSteps(table, gotoSpeed, 0)

(***************************************************************************)
(* calculateRate: the 32-slot table of timer periods                       *)
(***************************************************************************)
timerCountRate == 8000000
DecimalDistnWidth == 32
Slots == 0 .. (DecimalDistnWidth - 1)

\* (unsigned long)(floatRemainder + 0.5f): the remainder of the division as a
\* number of extra clocks per DecimalDistnWidth steps, rounded half up
extraClocks(divisor) ==
    LET remainder == timerCountRate % divisor
    IN  (2 * DecimalDistnWidth * remainder + divisor) \div (2 * divisor)

\* the float steps of calculateRate (24-bit mantissa) give the exact rounding
\* when the rounded value is not within 2^-15 of the rounding boundary
FloatExact(divisor) ==
    LET x == (2 * DecimalDistnWidth * (timerCountRate % divisor) + divisor)
                 % (2 * divisor)
    IN  \/ timerCountRate % divisor = 0
        \/ /\ x > divisor \div 32768
           /\ 2 * divisor - x > divisor \div 32768

\* the quotient truncated to an unsigned int with a sensible max value
clampRate(rate) ==
    IF rate \div 65536 # 0 THEN 65535
    ELSE IF rate < 128 THEN 128
    ELSE rate

\* (byte)ceil(i * distWidth / remainder)
distnIndex(i, remainder) ==
    (i * DecimalDistnWidth + remainder - 1) \div remainder

\* number of "timerOVF[axis][index] += 1" that hit slot k
extraAt(k, remainder) ==
    Cardinality({ i \in 0 .. (remainder - 1) : distnIndex(i, remainder) = k })

\* calculateRate for one axis; atmega162 is the build for the ATmega162
calculateRate(divisor, atmega162) ==
    LET rate0 == clampRate(timerCountRate \div divisor)
        rate == IF atmega162 THEN rate0 - 1 ELSE rate0
        remainder == extraClocks(divisor)
    IN  [k \in Slots |-> U16(rate + extraAt(k, remainder))]

\* the globals outside the motion core after systemInitialiser() of a
\* configured board in run mode
\* driver families and programming modes (AstroEQ.h, not part of src/)
A498x == 0
DRV8834 == 2
RUNMODE == 0
PROGMODE == 1
InitSys ==
    [ progMode |-> RUNMODE,
      eepromId |-> TRUE,        \* the EEPROM holds the id string "AstroEQ"
      driverVersion |-> A498x,
      microstepConf |-> 16,
      \* systemInitialiser: canJumpToHighspeed is
      \* (microstepConf >= 8) && !disableGearChange
      disableGearChange |-> ~canJumpToHighspeed,
      response |-> [error |-> FALSE, data |-> 0],
      atmega162 |-> FALSE,
      bVal |-> [a \in Axes |-> 40000],
      timerOVF |-> [a \in Axes |-> calculateRate(40000, FALSE)],
      boot |-> "done",
      allowAdvancedHCDetection |-> FALSE,
      irq |-> "float",          \* what the hand controller does to the IRQ line
      standaloneMode |-> FALSE, \* main()'s locals
      syntaMode |-> TRUE,
      hcMode |-> "EQMOD_MODE",  \* result of the last standaloneModeTest()
      probes |-> 0,             \* calls of standaloneModeTest()
      pcMask |-> TRUE ]         \* ST4 pin-change interrupts enabled (PCMSK0)

(***************************************************************************)
(* State after systemInitialiser(): both axes stopped, drivers disabled,   *)
(* timers off.  The cmd fields are initialised by Commands_init, which is  *)
(* not part of src/: position mid-range, target period sidereal, stopSpeed *)
(* equal to minSpeed, a configured period.                                 *)
(***************************************************************************)
InitMot(a, minSpeed, sidereal, canJump) ==
    [ jVal |-> JMid, IVal |-> sidereal, currentIVal |-> sidereal,
      stopSpeed |-> minSpeed, minSpeed |-> minSpeed,
      dir |-> "CMD_FORWARD", stepDir |-> 1, highSpeedMode |-> FALSE,
      stopped |-> TRUE, gotoEn |-> FALSE, GVal |-> 0, HVal |-> 0,
      FVal |-> FALSE, gVal |-> IF canJump THEN 8 ELSE 1,
      readyToGo |-> 0, gotoPosn |-> 0,
      accelTableRepeatsLeft |-> 0, accelTableIndex |-> 0,
      gotoRunning |-> FALSE, gotoDecelerating |-> FALSE,
      currentMotorSpeed |-> 0, irqToNextStep |-> 0,
      distributionSegment |-> 0,
      ovfSlot |-> 0,        \* slot of timerOVF loaded into interruptOVFCount
      icie |-> FALSE,       \* capture interrupt enable bit (ICIEn)
      timerOn |-> FALSE,    \* timer clocked (prescaler bits CSn0)
      stepPin |-> FALSE, dirPin |-> FALSE,
      enablePin |-> TRUE,   \* HIGH: driver disabled
      modePins |-> "SPEEDNORM" ]

InitHist ==
    [ moving |-> "none",    \* kind of the movement in progress
      j0 |-> 0,             \* jVal when gotoMode planned the goto
      hReq |-> 0,           \* HVal when gotoMode was entered
      hPlan |-> 0,          \* goto distance after raising and masking
      dPlan |-> 0,          \* decelerationLength subtracted from HVal
      latched |-> FALSE,    \* the goto marker has been reached
      sinceLatch |-> 0,     \* pulses completed since the latch
      ended |-> FALSE,      \* the engine halted the movement itself
      fwd |-> TRUE,         \* direction of the goto
      cruise |-> 0,         \* pulses completed at the cruise period
      kStop |-> FALSE,      \* a graceful stop acted on the running axis
      lStop |-> FALSE,      \* an emergency stop acted on the running axis
      retarget |-> FALSE,   \* an I command changed the speed of the slew
      guided |-> FALSE,     \* the ST4 handler changed the axis while it ran
      phase |-> "none",     \* "accel", "cruise", "decel"; "cut" when disturbed
      accelLog |-> << >>,   \* table index and period of each pulse of the ramp up
      decelLog |-> << >> ]  \* the same for the ramp down

\* the goto bits of one axis in gotoControlRegister
gotoBits(m) == [ gotoRunning |-> m.gotoRunning,
                 gotoDecelerating |-> m.gotoDecelerating ]
NoGotoBits == [ gotoRunning |-> FALSE, gotoDecelerating |-> FALSE ]

InitFg == [ pc |-> "idle", axis |-> "RA", ret |-> "none", GVal |-> 0,
            currentIVal |-> 0, startSpeed |-> 0, stoppingSpeed |-> 0,
            gcr |-> NoGotoBits ]  \* the other axis' goto bits as gotoMode
                                  \* read them from gotoControlRegister

InitBoot(tables, gotoSpeeds, sidereals, minSpeeds, canJumps, budgets) ==
    /\ \E t \in tables : accelTable = [a \in Axes |-> t]
    /\ \E g \in gotoSpeeds : normalGotoSpeed = [a \in Axes |-> g]
    /\ \E sv \in sidereals : siderealIVal = [a \in Axes |-> sv]
    /\ gotoDecelerationLength =
          [a \in Axes |->
             calculateDecelerationLength(accelTable[a], normalGotoSpeed[a])]
    /\ canJumpToHighspeed \in canJumps
    /\ encodeDirection = [a \in Axes |-> IF a = "RA" THEN "CMD_FORWARD"
                                                    ELSE "CMD_REVERSE"]
    /\ st4 = [RAIVal |-> << TopPeriod + 1, TopPeriod + 3 >>,
              DecIVal |-> TopPeriod + 4, RAReverse |-> "CMD_FORWARD"]
    /\ \E ms \in minSpeeds :
          mot = [a \in Axes |->
                   InitMot(a, ms, siderealIVal[a], canJumpToHighspeed)]
    /\ fg = InitFg
    /\ hist = [a \in Axes |-> InitHist]
    /\ budget \in budgets

InitCore(tables, gotoSpeeds, minSpeeds, canJumps, budgets) ==
    InitBoot(tables, gotoSpeeds, {TopPeriod + 2}, minSpeeds, canJumps, budgets)

InitWith(tables, gotoSpeeds, minSpeeds, canJumps, budgets) ==
    /\ InitCore(tables, gotoSpeeds, minSpeeds, canJumps, budgets)
    /\ sys = InitSys

(***************************************************************************)
(* Motor controller                                                        *)
(***************************************************************************)
\* a timerDisable that stops the clock and leaves the capture interrupt on
timerDisableKeepsIcie(m) == [m EXCEPT !.timerOn = FALSE]

\* timerDisable
timerDisable(m) == [m EXCEPT !.icie = FALSE, !.timerOn = FALSE]

\* motorStartRA / motorStartDC, first masked section: sample the current
\* period; the capture interrupt is enabled again afterwards.
motorStartSample(m) == m.currentMotorSpeed

\* motorStartRA / motorStartDC: stoppingSpeed and startSpeed
stoppingSpeedOf(m) ==
    IF m.IVal > m.minSpeed THEN m.IVal ELSE m.minSpeed

startSpeedOf(m, currentIVal) ==
    IF m.stopped THEN stoppingSpeedOf(m)
    ELSE IF currentIVal < m.minSpeed THEN currentIVal
    ELSE stoppingSpeedOf(m)

\* motorStartRA / motorStartDC, second masked section
motorStartCommit(a, m, startSpeed, stoppingSpeed) ==
    LET m1 == [m EXCEPT !.currentIVal = m.IVal,
                        !.currentMotorSpeed = startSpeed,
                        !.stopSpeed = stoppingSpeed,
                        !.dirPin = (encodeDirection[a] # m.dir)]
        m2 == IF m.stopped
              THEN [m1 EXCEPT !.irqToNextStep = 1,
                              !.accelTableRepeatsLeft = accelTable[a][0].repeats,
                              !.accelTableIndex = 0,
                              !.distributionSegment = 0,
                              !.ovfSlot = 0,
                              !.timerOn = TRUE,
                              !.stopped = FALSE]
              ELSE m1
    IN  [m2 EXCEPT !.icie = TRUE]

\* motorStart run without preemption (from an interrupt handler)
motorStart(a, m) ==
    LET cur == motorStartSample(m)
    IN  motorStartCommit(a, m, startSpeedOf(m, cur), stoppingSpeedOf(m))

\* motorStopRA / motorStopDC
motorStop(m, emergency) ==
    IF emergency
    THEN [timerDisable(m) EXCEPT !.gotoEn = FALSE, !.stopped = TRUE,
                                 !.GVal = 0, !.readyToGo = 0,
                                 !.gotoRunning = FALSE]
    ELSE IF ~m.stopped
    THEN LET newStop == IF m.currentIVal < m.minSpeed /\ m.stopSpeed > m.minSpeed
                        THEN m.minSpeed ELSE m.stopSpeed
         IN  [m EXCEPT !.gotoEn = FALSE, !.gotoRunning = FALSE, !.GVal = 0,
                       !.stopSpeed = newStop,
                       !.currentIVal = U16(newStop + 1),
                       !.icie = TRUE]
    ELSE m

\* motorEnable's pin and flag, and motorDisable
motorEnablePin(m) == [m EXCEPT !.enablePin = FALSE, !.FVal = TRUE]
motorDisable(m) == [m EXCEPT !.enablePin = TRUE, !.FVal = FALSE]
\* configureTimer: both capture interrupts off, both prescalers cleared
configureTimer(mm) == [a \in Axes |-> timerDisable(mm[a])]

\* gotoMode up to the call of motorStart: plan the deceleration marker
Mask8(x) == x - (x % 8)
gotoDecelLength(a, m) ==
    LET base == IF m.highSpeedMode
                THEN U16(gotoDecelerationLength[a] * 3)
                ELSE gotoDecelerationLength[a]
    IN  U16(base * Abs(m.stepDir))
gotoHVal(m) ==
    LET dirMagnitude == Abs(m.stepDir)
    IN  IF m.HVal < 2 * dirMagnitude THEN 2 * dirMagnitude ELSE m.HVal
gotoPlan(a, m) ==
    LET dirMagnitude == Abs(m.stepDir)
        HVal0 == gotoHVal(m)
        HVal == IF dirMagnitude = 8 THEN Mask8(HVal0) ELSE HVal0
        half0 == HVal0 \div 2
        halfHVal == IF dirMagnitude = 8 THEN Mask8(half0) ELSE half0
        len0 == gotoDecelLength(a, m)
        decelerationLength == IF halfHVal < len0 THEN halfHVal ELSE len0
        rel == HVal - decelerationLength
    IN  [m EXCEPT !.HVal = HVal0,
                  !.gotoPosn = IF m.dir = "CMD_REVERSE" THEN UL(m.jVal - rel)
                                                       ELSE UL(m.jVal + rel),
                  !.IVal = normalGotoSpeed[a],
                  !.gotoDecelerating = FALSE,
                  !.gotoRunning = TRUE]
gotoPlannedDecel(a, m) ==
    LET dirMagnitude == Abs(m.stepDir)
        half0 == gotoHVal(m) \div 2
        halfHVal == IF dirMagnitude = 8 THEN Mask8(half0) ELSE half0
        len0 == gotoDecelLength(a, m)
    IN  IF halfHVal < len0 THEN halfHVal ELSE len0

(***************************************************************************)
(* Step engine: ISR(TIMER1_CAPT_vect) for RA, ISR(TIMER3_CAPT_vect) for DC *)
(***************************************************************************)
\* dwell count loaded when the walk adopts table entry accelIndex
repeatsToLoad(a, m, accelIndex) ==
    IF m.highSpeedMode
    THEN U8(accelTable[a][accelIndex].repeats * 3 + 2)
    ELSE accelTable[a][accelIndex].repeats

\* the step pin is low: the accel/decel walk run after the pin is raised
accelWalk(a, m) ==
    LET currentSpeed == m.currentMotorSpeed
        repeatsReqd == m.accelTableRepeatsLeft
        targetSpeed == m.currentIVal
        accelIndex == m.accelTableIndex
    IN  IF repeatsReqd # 0
        THEN [m EXCEPT !.accelTableRepeatsLeft = repeatsReqd - 1]
        ELSE IF currentSpeed > targetSpeed
        THEN IF accelIndex >= AccelTableLength - 1
             THEN [m EXCEPT !.currentMotorSpeed = targetSpeed]
             ELSE LET newSpeed == accelTable[a][accelIndex + 1].speed
                  IN  IF newSpeed <= targetSpeed
                      THEN [m EXCEPT !.accelTableIndex = accelIndex + 1,
                                     !.currentMotorSpeed = targetSpeed]
                      ELSE [m EXCEPT !.accelTableIndex = accelIndex + 1,
                                     !.currentMotorSpeed = newSpeed,
                                     !.accelTableRepeatsLeft =
                                         repeatsToLoad(a, m, accelIndex + 1)]
        ELSE IF currentSpeed < targetSpeed
        THEN IF accelIndex = 0
             THEN [m EXCEPT !.currentMotorSpeed = targetSpeed]
             ELSE LET newSpeed == accelTable[a][accelIndex - 1].speed
                  IN  IF newSpeed >= targetSpeed
                      THEN [m EXCEPT !.accelTableIndex = accelIndex - 1,
                                     !.currentMotorSpeed = targetSpeed]
                      ELSE [m EXCEPT !.accelTableIndex = accelIndex - 1,
                                     !.currentMotorSpeed = newSpeed,
                                     !.accelTableRepeatsLeft =
                                         repeatsToLoad(a, m, accelIndex - 1)]
        ELSE m

\* the goto marker test made after jVal was advanced to jv
gotoLatches(m, jv) ==
    m.gotoRunning /\ ~m.gotoDecelerating /\ m.gotoPosn = jv

engineHaltsAtStopSpeed(m) == m.currentMotorSpeed >= m.stopSpeed

\* the test that ends the movement on a completed pulse
engineHalts(m) == m.currentMotorSpeed > m.stopSpeed

pulseCompleteDouble(m) ==
    LET jv == UL(m.jVal + 2 * m.stepDir)
        m1 == [m EXCEPT !.stepPin = FALSE, !.jVal = jv]
    IN  IF engineHalts(m)
        THEN [timerDisable(m1) EXCEPT !.gotoRunning = FALSE, !.stopped = TRUE]
        ELSE m1

\* the step pin is high: complete the pulse
pulseComplete(m) ==
    LET jv == UL(m.jVal + m.stepDir)
        latch == gotoLatches(m, jv)
        m1 == [m EXCEPT !.stepPin = FALSE, !.jVal = jv]
        m2 == IF latch
              THEN [m1 EXCEPT !.gotoDecelerating = TRUE,
                              !.currentIVal = U16(m.stopSpeed + 1),
                              !.accelTableRepeatsLeft = 0]
              ELSE m1
    IN  IF engineHalts(m)
        THEN [timerDisable(m2) EXCEPT
                 !.gotoEn = IF m2.gotoRunning THEN FALSE ELSE @,
                 !.gotoRunning = FALSE,
                 !.stopped = TRUE]
        ELSE m2

slotOfHalfStep(timeSegment) == timeSegment % DecimalDistnWidth

\* the slot the byte offset ((DecimalDistnWidth-1) << 1) & timeSegment selects
\* in the table of 16-bit periods
slotOf(timeSegment) == (timeSegment \div 2) % DecimalDistnWidth

timerISRLongHalf(a, m) ==
    LET irqToNext == U16(m.irqToNextStep - 1)
    IN  IF irqToNext # 0
        THEN [m EXCEPT !.irqToNextStep = irqToNext]
        ELSE LET m1 == [m EXCEPT
                          !.ovfSlot = slotOf(m.distributionSegment),
                          !.distributionSegment = U8(m.distributionSegment + 1),
                          !.irqToNextStep = U16(m.currentMotorSpeed + 1)]
             IN  IF m.stepPin
                 THEN pulseComplete(m1)
                 ELSE accelWalk(a, [m1 EXCEPT !.stepPin = TRUE])

\* one capture interrupt of the axis
timerISR(a, m) ==
    LET irqToNext == U16(m.irqToNextStep - 1)
    IN  IF irqToNext # 0
        THEN [m EXCEPT !.irqToNextStep = irqToNext]
        ELSE LET m1 == [m EXCEPT
                          !.ovfSlot = slotOf(m.distributionSegment),
                          !.distributionSegment = U8(m.distributionSegment + 1),
                          !.irqToNextStep = m.currentMotorSpeed]
             IN  IF m.stepPin
                 THEN pulseComplete(m1)
                 ELSE accelWalk(a, [m1 EXCEPT !.stepPin = TRUE])

(***************************************************************************)
(* ST4 pin-change handler: ISR(PCINT0_vect).  A pressed button reads low.  *)
(***************************************************************************)
ST4Buttons == {"none", "plus", "minus"}

st4RA(m, button) ==
    LET stopped == m.stopped \/ st4.RAReverse = "CMD_REVERSE"
        ignore == m.dir = "CMD_REVERSE" /\ ~stopped
        sel == IF ignore THEN [dir |-> "CMD_FORWARD", stepDir |-> 1,
                               newSpeed |-> siderealIVal["RA"]]
               ELSE IF button = "minus"
               THEN IF st4.RAReverse = "CMD_REVERSE"
                    THEN [dir |-> "CMD_REVERSE", stepDir |-> -1,
                          newSpeed |-> st4.RAIVal[2]]
                    ELSE [dir |-> "CMD_FORWARD", stepDir |-> 1,
                          newSpeed |-> st4.RAIVal[2]]
               ELSE IF button = "plus"
               THEN [dir |-> "CMD_FORWARD", stepDir |-> 1,
                     newSpeed |-> st4.RAIVal[1]]
               ELSE [dir |-> "CMD_FORWARD", stepDir |-> 1,
                     newSpeed |-> siderealIVal["RA"]]
        m1 == [m EXCEPT !.currentIVal = sel.newSpeed]
    IN  IF stopped
        THEN motorStart("RA", [m1 EXCEPT !.stepDir = sel.stepDir,
                                         !.dir = sel.dir,
                                         !.GVal = 1])
        ELSE IF m1.stopSpeed < m1.currentIVal
        THEN [m1 EXCEPT !.stopSpeed = m1.currentIVal]
        ELSE m1

st4DC(m, button) ==
    IF button = "none"
    THEN [m EXCEPT !.currentIVal = U16(m.stopSpeed + 1)]
    ELSE motorStart("DC",
            [m EXCEPT !.stepDir = IF button = "minus" THEN -1 ELSE 1,
                      !.dir = IF button = "minus" THEN "CMD_REVERSE"
                                                  ELSE "CMD_FORWARD",
                      !.currentIVal = st4.DecIVal,
                      !.GVal = 1])

\* the handler's guard
st4Allowed(mm) == ~mm["RA"].gotoEn /\ ~mm["DC"].gotoEn

st4ISR(mm, raButton, dcButton) ==
    IF st4Allowed(mm)
    THEN [a \in Axes |-> IF a = "RA" THEN st4RA(mm[a], raButton)
                                     ELSE st4DC(mm[a], dcButton)]
    ELSE mm

(***************************************************************************)
(* History of the movement in progress (not read by the firmware)          *)
(***************************************************************************)
\* Pulses a slew may complete at its cruise period before the bounded
\* specifications stop following it.
MaxCruisePulses == 2

histStart(h, kind) ==
    [h EXCEPT !.moving = kind, !.latched = FALSE, !.sinceLatch = 0,
              !.ended = FALSE, !.cruise = 0, !.kStop = FALSE, !.lStop = FALSE,
              !.retarget = FALSE, !.guided = FALSE, !.phase = "accel",
              !.accelLog = << >>, !.decelLog = << >>]

\* the movement is disturbed: its ramps are no longer followed
histCut(h) == [h EXCEPT !.phase = "cut", !.accelLog = << >>, !.decelLog = << >>]
\* a command or an ST4 event changed the course of the movement
histDisturb(h) == [histCut(h) EXCEPT !.latched = FALSE, !.sinceLatch = 0]
\* deceleration begins: from cruise it is followed
histDecel(h) == IF h.phase = "cruise" THEN [h EXCEPT !.phase = "decel"]
                ELSE histCut(h)

histGoto(a, m, h) ==
    [histStart(h, "goto") EXCEPT
        !.j0 = m.jVal,
        !.hReq = m.HVal,
        !.fwd = (m.dir # "CMD_REVERSE"),
        !.hPlan = IF Abs(m.stepDir) = 8 THEN Mask8(gotoHVal(m)) ELSE gotoHVal(m),
        !.dPlan = gotoPlannedDecel(a, m)]

\* history after one capture interrupt took the axis from m to n
\* the ramps: a pulse of the ramp up is logged with the period it starts with,
\* a pulse of the ramp down with the period the walk gives it; the ramp down
\* is logged until it is one pulse longer than the ramp up
histRamp(m, n, h) ==
    LET rise == ~m.stepPin /\ n.stepPin
        latchNow == m.stepPin /\ n.gotoDecelerating /\ ~m.gotoDecelerating
    IN  IF latchNow THEN histDecel(h)
        ELSE IF rise /\ h.phase = "accel"
        THEN IF m.currentMotorSpeed = m.currentIVal
             THEN [h EXCEPT !.phase = "cruise"]
             ELSE [h EXCEPT !.accelLog =
                      Append(@, [index |-> m.accelTableIndex,
                                 speed |-> m.currentMotorSpeed])]
        ELSE IF /\ rise /\ h.phase = "decel"
                /\ n.currentMotorSpeed <= n.stopSpeed
                /\ Len(h.decelLog) <= Len(h.accelLog)
        THEN [h EXCEPT !.decelLog =
                 Append(@, [index |-> n.accelTableIndex,
                            speed |-> n.currentMotorSpeed])]
        ELSE h

histTick(m, n, h) ==
    LET pulse == m.stepPin /\ ~n.stepPin
        latchNow == pulse /\ n.gotoDecelerating /\ ~m.gotoDecelerating
        atCruise == m.currentMotorSpeed = m.currentIVal /\ ~m.gotoRunning
    IN  [histRamp(m, n, h) EXCEPT
            !.latched = @ \/ latchNow,
            !.sinceLatch = IF pulse /\ h.latched THEN @ + 1 ELSE @,
            !.cruise = IF pulse /\ atCruise /\ @ < MaxCruisePulses
                       THEN @ + 1 ELSE @,
            !.ended = @ \/ (n.stopped /\ ~m.stopped)]

(***************************************************************************)
(* Interrupts                                                              *)
(***************************************************************************)
\* the capture interrupt fires while the timer is clocked and ICIEn is set
TickEnabled(m) == m.timerOn /\ m.icie

Tick(a) ==
    /\ TickEnabled(mot[a])
    /\ mot' = [mot EXCEPT ![a] = timerISR(a, mot[a])]
    /\ hist' = [hist EXCEPT ![a] = histTick(mot[a], mot'[a], hist[a])]
    /\ UNCHANGED << cfgVars, fg >>

\* a slew at its cruise period is followed for MaxCruisePulses pulses
CruiseBound(a) ==
    \/ hist[a].cruise < MaxCruisePulses
    \/ mot[a].gotoRunning
    \/ mot[a].currentMotorSpeed # mot[a].currentIVal

TickBounded(a) == CruiseBound(a) /\ Tick(a)

histST4(m, n, h) ==
    IF m.stopped /\ ~n.stopped THEN histStart(h, "st4")
    ELSE IF n # m THEN [histDisturb(h) EXCEPT !.cruise = 0, !.guided = TRUE]
    ELSE h

ST4Event(raButtons, dcButtons) ==
    /\ \E raButton \in raButtons, dcButton \in dcButtons :
          mot' = st4ISR(mot, raButton, dcButton)
    /\ hist' = [a \in Axes |-> histST4(mot[a], mot'[a], hist[a])]
    /\ UNCHANGED << cfgVars, fg >>

(***************************************************************************)
(* Foreground: main loop and decodeCommand                                 *)
(***************************************************************************)
\* main(): the test that lets the loop start a deferred movement
startCond(m) == m.readyToGo = 1 /\ m.stopped

\* where the loop goes after decodeCommand returned: the RA check, then DC
afterCmd(mm) ==
    IF startCond(mm["RA"]) THEN [InitFg EXCEPT !.pc = "chk", !.axis = "RA"]
    ELSE IF startCond(mm["DC"]) THEN [InitFg EXCEPT !.pc = "chk", !.axis = "DC"]
    ELSE InitFg

\* where the loop goes after it dealt with axis a
afterAxis(a, mm) ==
    IF a = "RA" /\ startCond(mm["DC"])
    THEN [InitFg EXCEPT !.pc = "chk", !.axis = "DC"]
    ELSE InitFg

\* cmd_updateStepDir (not part of src/): the sign follows cmd.dir
cmd_updateStepDir(m, stepSize) ==
    [m EXCEPT !.stepDir = IF m.dir = "CMD_REVERSE" THEN -stepSize ELSE stepSize]

\* main(): readyToGo == 1 and the axis is stopped
MainLoopCheck(a) ==
    /\ \/ fg.pc = "chk" /\ fg.axis = a
       \/ fg.pc = "idle" /\ (a = "DC" => ~startCond(mot["RA"]))
    /\ startCond(mot[a])
    /\ fg' = [fg EXCEPT !.pc = "ml_gval", !.axis = a]
    /\ UNCHANGED << mot, cfgVars, hist >>

\* main(): the local copy of cmd.GVal
MainLoopGVal ==
    /\ fg.pc = "ml_gval"
    /\ fg' = [fg EXCEPT !.pc = "ml_config", !.GVal = mot[fg.axis].GVal]
    /\ UNCHANGED << mot, cfgVars, hist >>

\* main(): the test fails when the loop reaches it
MainLoopSkip ==
    /\ fg.pc = "chk"
    /\ ~startCond(mot[fg.axis])
    /\ fg' = afterAxis(fg.axis, mot)
    /\ UNCHANGED << mot, cfgVars, hist >>

\* main(): reconfigure microstep mode, stepDir and highSpeedMode from GVal
mainConfig(m, GVal) ==
    IF canJumpToHighspeed
    THEN IF GVal = 1 \/ GVal = 2
         THEN [cmd_updateStepDir(m, 1) EXCEPT !.highSpeedMode = FALSE,
                                              !.modePins = "SPEEDNORM"]
         ELSE [cmd_updateStepDir(m, m.gVal) EXCEPT !.highSpeedMode = TRUE,
                                                   !.modePins = "SPEEDFAST"]
    ELSE [cmd_updateStepDir(m, 1) EXCEPT !.highSpeedMode = FALSE]

MainLoopConfig ==
    /\ fg.pc = "ml_config"
    /\ LET a == fg.axis
       IN  /\ mot' = [mot EXCEPT ![a] = mainConfig(mot[a], fg.GVal)]
           /\ fg' = IF fg.GVal % 2 = 1
                    THEN [fg EXCEPT !.pc = "ms_sample", !.ret = "slew"]
                    ELSE [fg EXCEPT !.pc = "goto_plan", !.ret = "goto"]
    /\ UNCHANGED << cfgVars, hist >>

OtherAxis(a) == IF a = "RA" THEN "DC" ELSE "RA"

\* gotoMode() up to its call of motorStart
GotoPlan ==
    /\ fg.pc = "goto_plan"
    /\ LET a == fg.axis
       IN  /\ mot' = [mot EXCEPT ![a] = gotoPlan(a, mot[a])]
           /\ hist' = [hist EXCEPT ![a] = histGoto(a, mot[a], hist[a])]
    /\ fg' = [fg EXCEPT !.pc = "ms_sample",
                        !.gcr = gotoBits(mot[OtherAxis(fg.axis)])]
    /\ UNCHANGED << cfgVars >>

\* gotoMode(axis): clearGotoDecelerating and setGotoRunning read
\* gotoControlRegister, change the bit of the axis and write the register
\* back with interrupts enabled, so the write carries the other axis' bits
\* as they were read
gotoRegisterWrite(mm, a, ret, gcr) ==
    IF ret = "goto"
    THEN [mm EXCEPT ![OtherAxis(a)].gotoRunning = gcr.gotoRunning,
                    ![OtherAxis(a)].gotoDecelerating = gcr.gotoDecelerating]
    ELSE mm

\* motorStart(): sample the current period, capture interrupt enabled again;
\* when gotoMode called it, the step begins with gotoMode's register write
MotorStartSample ==
    /\ fg.pc = "ms_sample"
    /\ fg' = [fg EXCEPT !.pc = "ms_decide",
                        !.currentIVal = motorStartSample(mot[fg.axis]),
                        !.gcr = NoGotoBits]
    /\ mot' = [gotoRegisterWrite(mot, fg.axis, fg.ret, fg.gcr)
                  EXCEPT ![fg.axis].icie = TRUE]
    /\ UNCHANGED << cfgVars, hist >>

\* motorStart(): choose stoppingSpeed and startSpeed, interrupts enabled
MotorStartDecide ==
    /\ fg.pc = "ms_decide"
    /\ fg' = [fg EXCEPT !.pc = "ms_commit",
                        !.stoppingSpeed = stoppingSpeedOf(mot[fg.axis]),
                        !.startSpeed = startSpeedOf(mot[fg.axis], fg.currentIVal)]
    /\ UNCHANGED << mot, cfgVars, hist >>

\* a caller that leaves every started movement open to live speed updates
afterStartAlwaysLive(m, ret) ==
    IF ret = "cmdI" THEN m ELSE [m EXCEPT !.readyToGo = 2]

\* what the caller of motorStart does when it returns
afterStart(m, ret) ==
    IF ret = "slew" THEN [m EXCEPT !.readyToGo = 2]
    ELSE IF ret = "goto" THEN [m EXCEPT !.readyToGo = 0]
    ELSE m

\* motorStart(): the masked section that writes the engine's state
MotorStartCommit ==
    /\ fg.pc = "ms_commit"
    /\ LET a == fg.axis
           n == motorStartCommit(a, mot[a], fg.startSpeed, fg.stoppingSpeed)
       IN  /\ mot' = [mot EXCEPT ![a] = afterStart(n, fg.ret)]
           /\ hist' = [hist EXCEPT ![a] =
                         IF mot[a].stopped /\ fg.ret # "goto"
                         THEN histStart(@, "slew")
                         ELSE IF fg.ret = "cmdI"
                         THEN [histDisturb(@) EXCEPT !.cruise = 0]
                         ELSE [@ EXCEPT !.cruise = 0]]
           /\ fg' = IF fg.ret = "cmdI" THEN afterCmd(mot')
                                       ELSE afterAxis(a, mot')
    /\ UNCHANGED << cfgVars >>

(***************************************************************************)
(* decodeCommand: the commands the motion core consumes.  Payloads are     *)
(* drawn from small sets.                                                  *)
(***************************************************************************)
GModes == 0 .. 3
IValues == {1, TopPeriod - 1, TopPeriod + 2}
EValues == {JMid + 3}

\* synta_assembleResponse: the response packet of the command, an error
\* packet when the command was forced to 0
Respond(error, data) ==
    sys' = [sys EXCEPT !.response = [error |-> error, data |-> data]]

\* 'E': cmd_setjVal with interrupts disabled
CmdE(a, v) ==
    /\ fg.pc = "idle"
    /\ mot' = [mot EXCEPT ![a].jVal = UL(v)]
    /\ fg' = afterCmd(mot')
    /\ Respond(FALSE, 0)
    /\ UNCHANGED << engineCfg, hist >>

\* 'G': mode and direction, readyToGo cleared
CmdG(a, mode, dir) ==
    /\ fg.pc = "idle"
    /\ mot' = [mot EXCEPT ![a].GVal = mode, ![a].dir = dir,
                          ![a].readyToGo = 0]
    /\ fg' = afterCmd(mot')
    /\ Respond(FALSE, 0)
    /\ UNCHANGED << engineCfg, hist >>

\* 'H': goto distance, readyToGo cleared
CmdH(a, v) ==
    /\ fg.pc = "idle"
    /\ mot' = [mot EXCEPT ![a].HVal = UL(v), ![a].readyToGo = 0]
    /\ fg' = afterCmd(mot')
    /\ Respond(FALSE, 0)
    /\ UNCHANGED << engineCfg, hist >>

\* an I that stores the payload as it comes
limitIValNone(a, v) == v

\* 'I': the period is limited to the fastest accel-table entry
limitIVal(a, v) ==
    IF v < accelTable[a][AccelTableLength - 1].speed
    THEN accelTable[a][AccelTableLength - 1].speed
    ELSE v

\* 'I': in a running slew (readyToGo == 2) motorStart updates the speed
CmdI(a, v) ==
    /\ fg.pc = "idle"
    /\ IF mot[a].readyToGo = 2
       THEN /\ mot' = [mot EXCEPT ![a].IVal = U16(limitIVal(a, v))]
            /\ fg' = [fg EXCEPT !.pc = "ms_sample", !.axis = a, !.ret = "cmdI"]
            /\ hist' = [hist EXCEPT ![a].retarget = TRUE]
       ELSE /\ mot' = [mot EXCEPT ![a].IVal = U16(limitIVal(a, v)),
                                  ![a].readyToGo = 0]
            /\ fg' = afterCmd(mot')
            /\ UNCHANGED hist
    /\ Respond(FALSE, 0)
    /\ UNCHANGED << engineCfg >>

\* 'J' outside programming mode: readyToGo = 1, and gotoEn when the mode is a
\* goto (GVal even)
cmdJ(m) ==
    [m EXCEPT !.readyToGo = 1,
              !.gotoEn = IF m.GVal % 2 = 0 THEN TRUE ELSE @]

CmdJ(a) ==
    /\ fg.pc = "idle"
    /\ mot' = IF sys.progMode = 0 THEN [mot EXCEPT ![a] = cmdJ(mot[a])]
                                   ELSE mot
    /\ fg' = afterCmd(mot')
    /\ Respond(FALSE, 0)
    /\ UNCHANGED << engineCfg, hist >>

\* 'K': motorStop(axis, 0), readyToGo cleared
cmdK(m) == [motorStop(m, FALSE) EXCEPT !.readyToGo = 0]

CmdK(a) ==
    /\ fg.pc = "idle"
    /\ mot' = [mot EXCEPT ![a] = cmdK(mot[a])]
    /\ hist' = [hist EXCEPT ![a] =
                  IF mot[a].stopped THEN [@ EXCEPT !.kStop = FALSE]
                  ELSE [histDecel(@) EXCEPT !.kStop = TRUE, !.latched = FALSE,
                                            !.sinceLatch = 0]]
    /\ fg' = afterCmd(mot')
    /\ Respond(FALSE, 0)
    /\ UNCHANGED << engineCfg >>

\* an emergency stop that leaves the driver enabled
cmdLKeepsDriver(m) == motorStop(m, TRUE)

\* 'L': motorStop(axis, 1) and motorDisable
cmdL(m) == motorDisable(motorStop(m, TRUE))

CmdL(a) ==
    /\ fg.pc = "idle"
    /\ mot' = [mot EXCEPT ![a] = cmdL(mot[a])]
    /\ hist' = [hist EXCEPT ![a] =
                  IF mot[a].stopped THEN [@ EXCEPT !.lStop = FALSE]
                  ELSE [histDisturb(@) EXCEPT !.lStop = TRUE]]
    /\ fg' = afterCmd(mot')
    /\ Respond(FALSE, 0)
    /\ UNCHANGED << engineCfg >>

\* motorEnable, which also runs configureTimer
cmdF(a, mm) == configureTimer([mm EXCEPT ![a] = motorEnablePin(mm[a])])

\* an F that enables the driver in every mode
enableAllowedAlways(progMode) == TRUE

\* 'F': motors are enabled outside of programming mode only
enableAllowed(progMode) == progMode = 0

CmdF(a) ==
    /\ fg.pc = "idle"
    /\ IF enableAllowed(sys.progMode)
       THEN mot' = cmdF(a, mot) /\ Respond(FALSE, 0)
       ELSE mot' = mot /\ Respond(TRUE, 0)
    /\ fg' = afterCmd(mot')
    /\ UNCHANGED << engineCfg, hist >>

\* the commands the host may send next, with what they cost
Spend(field) == budget' = [budget EXCEPT ![field] = @ - 1]
AtRest(a) == mot[a].stopped /\ mot[a].readyToGo = 0

(***************************************************************************)
(* SpecGoto: gotos on one axis, for every acceleration table of the        *)
(* family, every goto period and both settings of canJumpToHighspeed.  The *)
(* host sets up a goto (G, H, J) while the axis is at rest and lets it run *)
(* to its end.                                                             *)
(***************************************************************************)
GotoModes == {0, 2}
GotoHValues == {2, 5, 17, 48}

InitGoto ==
    InitWith(AccelTables, GotoSpeeds, MinSpeeds, {TRUE, FALSE},
             { [host |-> MaxHostCmds, st4 |-> 0, live |-> 0, axes |-> {a}] :
                 a \in Axes })

GotoSetup ==
    /\ budget.host > 0
    /\ \E a \in budget.axes :
          /\ AtRest(a)
          /\ \/ \E mode \in GotoModes, dir \in Dirs : CmdG(a, mode, dir)
             \/ \E v \in GotoHValues : CmdH(a, v)
             \/ CmdJ(a)
    /\ Spend("host")

NextGoto ==
    \/ (\E a \in Axes : Tick(a)) /\ UNCHANGED budget
    \/ (\E a \in Axes : MainLoopCheck(a)) /\ UNCHANGED budget
    \/ MainLoopGVal /\ UNCHANGED budget
    \/ MainLoopConfig /\ UNCHANGED budget
    \/ GotoPlan /\ UNCHANGED budget
    \/ MotorStartSample /\ UNCHANGED budget
    \/ MotorStartDecide /\ UNCHANGED budget
    \/ MotorStartCommit /\ UNCHANGED budget
    \/ GotoSetup

SpecGoto == InitGoto /\ [][NextGoto]_vars

\* the engine has halted a goto by itself
GotoEnded(a) == hist[a].moving = "goto" /\ hist[a].ended /\ mot[a].stopped
\* where the goto planned at j0 was asked to end
GotoTarget(a) == IF hist[a].fwd THEN UL(hist[a].j0 + hist[a].hPlan)
                                ELSE UL(hist[a].j0 - hist[a].hPlan)

\* C1: a goto with HVal >= 2*|stepDir| started on a stopped axis at j0 has,
\* when the engine halts, jVal = j0 +/- HVal (HVal masked to a multiple of 8
\* in high-speed mode), stopped = true and gotoRunning = false.
GotoLandsExactly ==
    \A a \in Axes :
        (GotoEnded(a) /\ hist[a].hReq >= 2 * Abs(mot[a].stepDir))
            => /\ mot[a].jVal = GotoTarget(a)
               /\ mot[a].stopped
               /\ ~mot[a].gotoRunning

\* C2: from the latch of gotoDecelerating to the halt jVal changes by at most
\* decelerationLength units, the stopping pulse included.
NoOvershoot ==
    \A a \in Axes :
        (hist[a].moving = "goto" /\ hist[a].latched)
            => hist[a].sinceLatch * Abs(mot[a].stepDir) <= hist[a].dPlan

(***************************************************************************)
(* SpecSlew: slews on one axis, for every acceleration table of the        *)
(* family.  The host enables the driver and sets up a slew (F, G, I, J)    *)
(* while the axis is at rest; while it runs the host sends at most         *)
(* MaxLiveCmds commands: a new period (I), a stop (K) or an emergency      *)
(* stop (L).  A slew at its cruise period is followed for MaxCruisePulses  *)
(* pulses.                                                                 *)
(***************************************************************************)
SlewModes == {1, 3}
SlewTables == { t \in AccelTables : t[AccelTableLength - 1].repeats = 0 }

InitSlew ==
    InitWith(SlewTables, {TopPeriod - 1}, {TopPeriod}, {TRUE},
             { [host |-> MaxHostCmds, st4 |-> 0, live |-> MaxLiveCmds,
                axes |-> {a}] : a \in Axes })

SlewSetup ==
    /\ budget.host > 0
    /\ \E a \in budget.axes :
          /\ AtRest(a)
          /\ \/ \E mode \in SlewModes, dir \in Dirs : CmdG(a, mode, dir)
             \/ \E v \in IValues : CmdI(a, v)
             \/ CmdJ(a)
             \/ CmdF(a)
    /\ Spend("host")

SlewLive ==
    /\ budget.live > 0
    /\ \E a \in budget.axes :
          /\ ~mot[a].stopped
          /\ \/ \E v \in IValues : CmdI(a, v)
             \/ CmdK(a)
             \/ CmdL(a)
    /\ Spend("live")

NextSlew ==
    \/ (\E a \in Axes : TickBounded(a)) /\ UNCHANGED budget
    \/ (\E a \in Axes : MainLoopCheck(a)) /\ UNCHANGED budget
    \/ MainLoopGVal /\ UNCHANGED budget
    \/ MainLoopConfig /\ UNCHANGED budget
    \/ GotoPlan /\ UNCHANGED budget
    \/ MotorStartSample /\ UNCHANGED budget
    \/ MotorStartDecide /\ UNCHANGED budget
    \/ MotorStartCommit /\ UNCHANGED budget
    \/ SlewSetup
    \/ SlewLive

SpecSlew == InitSlew /\ [][NextSlew]_vars

\* the state an emergency stop must leave the axis in
EmergencyStopped(m) ==
    /\ m.stopped /\ ~m.timerOn /\ ~m.icie /\ m.enablePin
    /\ ~m.gotoEn /\ ~m.gotoRunning /\ m.readyToGo = 0

\* C5: an emergency stop (L) on a running axis leaves it stopped, timer and
\* capture interrupt disabled, enable pin high, gotoEn and gotoRunning
\* cleared, readyToGo = 0; until the axis is started again no capture
\* interrupt can run and jVal and the step pin keep their values.
EmergencyStopHolds ==
    [][\A a \in Axes :
          /\ (~hist[a].lStop /\ hist'[a].lStop) => EmergencyStopped(mot'[a])
          /\ (hist[a].lStop /\ hist'[a].lStop)
                => /\ ~TickEnabled(mot'[a])
                   /\ mot'[a].jVal = mot[a].jVal
                   /\ mot'[a].stepPin = mot[a].stepPin]_vars

\* an emergency stop caught a moving axis in the middle of a pulse
EmergencyStopSeen ==
    \E a \in Axes :
        /\ hist[a].lStop /\ mot[a].stepPin /\ mot[a].jVal # JMid
        /\ EmergencyStopped(mot[a])

\* pulses of a ramp spent on table entry i
Dwell(log, i) == Cardinality({ k \in 1 .. Len(log) : log[k].index = i })
\* the ramp has gone past table entry i
Passed(h, i) ==
    \/ h.phase # "accel"
    \/ \E k \in 1 .. Len(h.accelLog) : h.accelLog[k].index > i
\* the movement began on a stopped axis and nothing disturbed its ramp
RampFollowed(h) == h.phase \in {"accel", "cruise", "decel"}

\* C6: starting from stopped with target period T, the periods of successive
\* pulses do not increase on the way down to T, and every table entry visited
\* on the way is held for repeats+1 pulses (repeats as the walk loads it: the
\* table's value, scaled to 3*repeats+2 in high-speed mode); the pulses at T,
\* reached by the last entry's snap, are not counted.
MonotoneAccel ==
    \A a \in Axes :
        RampFollowed(hist[a]) =>
            LET log == hist[a].accelLog
            IN  /\ \A k \in 1 .. Len(log) - 1 : log[k + 1].speed <= log[k].speed
                /\ \A i \in TableIdx :
                      (Dwell(log, i) > 0 /\ Passed(hist[a], i))
                          => Dwell(log, i) = repeatsToLoad(a, mot[a], i) + 1

Speeds(log) == [k \in 1 .. Len(log) |-> log[k].speed]
Reverse(seq) == [k \in 1 .. Len(seq) |-> seq[Len(seq) + 1 - k]]

\* C7: a movement that ramps from stopped to cruise and from cruise to stop
\* has, pulse for pulse, the periods of its ramp down equal to those of its
\* ramp up in reverse order, in normal and in high-speed mode.
SymmetricDecel ==
    \A a \in Axes :
        (hist[a].phase = "decel" /\ hist[a].ended)
            => Speeds(hist[a].decelLog) = Reverse(Speeds(hist[a].accelLog))

\* the table periods next to period cur on the side of the target
tableSpeeds(a) == { accelTable[a][i].speed : i \in TableIdx }
NextEntryToward(a, cur, target) ==
    IF target < cur
    THEN { s \in tableSpeeds(a) :
             s < cur /\ \A u \in tableSpeeds(a) : u < cur => u <= s }
    ELSE { s \in tableSpeeds(a) :
             s > cur /\ \A u \in tableSpeeds(a) : u > cur => u >= s }

\* C8: after an I command in a running slew (readyToGo = 2) the axis does not
\* stop and every change of currentMotorSpeed is to the next table entry
\* toward the target or to the target itself.
LiveUpdateRamps ==
    [][\A a \in Axes :
          ( /\ mot[a].readyToGo = 2 /\ hist[a].retarget /\ ~mot[a].stopped
            /\ ~hist'[a].kStop /\ ~hist'[a].lStop )
              => /\ ~mot'[a].stopped
                 /\ \/ mot'[a].currentMotorSpeed = mot[a].currentMotorSpeed
                    \/ mot'[a].currentMotorSpeed = mot'[a].currentIVal
                    \/ mot'[a].currentMotorSpeed \in
                          NextEntryToward(a, mot[a].currentMotorSpeed,
                                          mot'[a].currentIVal)]_vars

(***************************************************************************)
(* SpecGotoFair: gotos on one axis with the position rewritten (E) while   *)
(* the goto runs.  The timers keep firing and the main loop keeps running: *)
(* weak fairness of the capture interrupts and of the foreground steps.    *)
(***************************************************************************)
InitGotoFair ==
    InitWith(SpecTables, {TopPeriod - 1}, {TopPeriod}, {TRUE},
             { [host |-> MaxHostCmds - 1, st4 |-> 0, live |-> MaxLiveCmds,
                axes |-> {a}] : a \in Axes })

GotoModeSetup ==
    /\ budget.host > 0
    /\ \E a \in budget.axes :
          /\ AtRest(a)
          /\ \/ \E mode \in GotoModes, dir \in Dirs : CmdG(a, mode, dir)
             \/ CmdJ(a)
    /\ Spend("host")

GotoLive ==
    /\ budget.live > 0
    /\ \E a \in budget.axes, v \in EValues :
          /\ mot[a].gotoRunning
          /\ CmdE(a, v)
    /\ Spend("live")

Timers == (\E a \in Axes : Tick(a)) /\ UNCHANGED budget

MainLoop ==
    /\ \/ \E a \in Axes : MainLoopCheck(a)
       \/ MainLoopGVal
       \/ MainLoopConfig
       \/ GotoPlan
       \/ MotorStartSample
       \/ MotorStartDecide
       \/ MotorStartCommit
    /\ UNCHANGED budget

NextGotoFair ==
    \/ Timers
    \/ MainLoop
    \/ GotoModeSetup
    \/ GotoLive

SpecGotoFair ==
    /\ InitGotoFair
    /\ [][NextGotoFair]_vars
    /\ WF_vars(Timers)
    /\ WF_vars(MainLoop)

\* C3: every goto that is started eventually ends: the axis reaches
\* stopped = true with gotoRunning = false, whatever commands that do not
\* stop the axis arrive, an E that rewrites jVal included.
GotoEnds ==
    \A a \in Axes :
        mot[a].gotoRunning ~> (mot[a].stopped /\ ~mot[a].gotoRunning)

(***************************************************************************)
(* SpecStopFair: movements of the RA axis stopped by K, with ST4 pin        *)
(* changes of the RA buttons while the axis ramps down after the K.  Weak  *)
(* fairness as in SpecGotoFair; a slew is followed for MaxCruisePulses     *)
(* pulses at cruise until K is received and without bound after it.        *)
(***************************************************************************)
InitStopFair ==
    InitWith(SpecTables, {TopPeriod - 1}, {TopPeriod}, {TRUE},
             { [host |-> MaxHostCmds, st4 |-> MaxST4Events,
                live |-> MaxLiveCmds, axes |-> {"RA"}] })

StopSetup ==
    /\ budget.host > 0
    /\ \E a \in budget.axes :
          /\ AtRest(a)
          /\ \/ \E mode \in GModes : CmdG(a, mode, "CMD_FORWARD")
             \/ CmdI(a, TopPeriod - 1)
             \/ CmdJ(a)
    /\ Spend("host")

StopLive ==
    /\ budget.live > 0
    /\ \E a \in budget.axes :
          /\ ~mot[a].stopped
          /\ CmdK(a)
    /\ Spend("live")

GuideEvent ==
    /\ budget.st4 > 0
    /\ \E a \in budget.axes : hist[a].kStop /\ ~mot[a].stopped
    /\ ST4Event(ST4Buttons, {"none"})
    /\ Spend("st4")

TimersAfterStop ==
    /\ \E a \in Axes : (CruiseBound(a) \/ hist[a].kStop) /\ Tick(a)
    /\ UNCHANGED budget

NextStopFair ==
    \/ TimersAfterStop
    \/ MainLoop
    \/ StopSetup
    \/ StopLive
    \/ GuideEvent

SpecStopFair ==
    /\ InitStopFair
    /\ [][NextStopFair]_vars
    /\ WF_vars(TimersAfterStop)
    /\ WF_vars(MainLoop)

MaxTravel == 24

InitST4 ==
    InitWith(SpecTables, {TopPeriod - 1}, {TopPeriod}, {TRUE},
             { [host |-> MaxHostCmds - 1, st4 |-> MaxST4Events, live |-> 0,
                axes |-> {a}] : a \in Axes })

ST4Host ==
    /\ budget.host > 0
    /\ \E a \in budget.axes :
          \/ \E mode \in GModes : CmdG(a, mode, "CMD_FORWARD")
          \/ CmdJ(a)
    /\ Spend("host")

PinChange ==
    /\ budget.st4 > 0
    /\ ST4Event(ST4Buttons, ST4Buttons)
    /\ Spend("st4")

TimersST4 ==
    /\ \E a \in Axes :
          /\ TickBounded(a)
          /\ mot'[a].irqToNextStep <= st4.DecIVal
          /\ Abs(mot'[a].jVal - JMid) <= MaxTravel
    /\ UNCHANGED budget

NextST4 ==
    \/ TimersST4
    \/ MainLoop
    \/ MainLoopSkip /\ UNCHANGED budget
    \/ ST4Host
    \/ PinChange

SpecST4 == InitST4 /\ [][NextST4]_vars

\* the Motion State an ST4 event may not touch during a goto
MotionState(m) ==
    << m.currentIVal, m.stopSpeed, m.dir, m.stepDir, m.GVal, m.stopped >>

\* C9: an ST4 pin-change event handled while either axis has gotoRunning
\* leaves target speed, stopSpeed, dir, stepDir, GVal and stopped of both
\* axes unchanged.
ST4InertDuringGoto ==
    [][(budget'.st4 # budget.st4 /\ \E a \in Axes : mot[a].gotoRunning)
          => \A a \in Axes : MotionState(mot'[a]) = MotionState(mot[a])]_vars

\* C10: J only sets readyToGo = 1; the main loop leaves readyToGo at 1 while
\* the axis runs, and the axis is stopped when the main loop applies the
\* reconfiguration (mode pins, stepDir, highSpeedMode), whatever timer and
\* ST4 interrupts occur in between.
JDeferred ==
    [][\A a \in Axes :
          /\ (fg.pc = "ml_config" /\ fg.axis = a /\ fg'.pc # "ml_config")
                => mot[a].stopped
          /\ (mot[a].readyToGo = 1 /\ ~mot[a].stopped /\ budget' = budget)
                => mot'[a].readyToGo = 1]_vars

(***************************************************************************)
(* SpecStart: the deferred start of the main loop for every mode (G with   *)
(* GVal 0..3) and both settings of canJumpToHighspeed, with the host       *)
(* commands, ST4 pin changes and capture interrupts of SpecST4.            *)
(***************************************************************************)
InitStart ==
    InitWith(SpecTables, {TopPeriod - 1}, {TopPeriod}, {TRUE, FALSE},
             { [host |-> MaxHostCmds - 1, st4 |-> MaxST4Events, live |-> 0,
                axes |-> {a}] : a \in Axes })

SpecStart == InitStart /\ [][NextST4]_vars

\* the main loop applies the reconfiguration to axis a on this step
Reconfigures(a) == fg.pc = "ml_config" /\ fg.axis = a /\ fg'.pc # "ml_config"
\* the motorStart called by slewMode or gotoMode for axis a returns on this step
StartReturns(a) ==
    /\ fg.pc = "ms_commit" /\ fg.axis = a /\ fg'.pc # "ms_commit"
    /\ fg.ret \in {"slew", "goto"}
\* the call the main loop makes after the reconfiguration: slewMode for an odd
\* GVal, gotoMode for an even one
Dispatches(a) ==
    /\ (fg.GVal % 2 = 1) => (fg'.pc = "ms_sample" /\ fg'.ret = "slew")
    /\ (fg.GVal % 2 = 0) => (fg'.pc = "goto_plan" /\ fg'.ret = "goto")
\* gotoMode marks the goto as running before it calls motorStart
GotoMarked(a) ==
    (fg.pc = "goto_plan" /\ fg.axis = a /\ fg'.pc # "goto_plan")
        => mot'[a].gotoRunning
\* what the main loop leaves behind when it started the movement
StartedByParity(a) ==
    /\ ~mot'[a].stopped
    /\ mot'[a].readyToGo = IF fg.GVal % 2 = 1 THEN 2 ELSE 0
    /\ fg.ret = IF fg.GVal % 2 = 1 THEN "slew" ELSE "goto"

BValues ==
    { b \in {1, 100, 122, 123, 124, 1000, 39999, 40000, 40001, 62499, 62500,
             62501, 64000, 7999999, 8000000, 8000001, 16777215} :
        FloatExact(b) }

InitRate ==
    /\ InitCore(SpecTables, {TopPeriod - 1}, {TopPeriod}, {TRUE},
                { [host |-> 0, st4 |-> 0, live |-> 0, axes |-> {}] })
    /\ \E bRA \in BValues, bDC \in BValues, mcu \in BOOLEAN :
          sys = [InitSys EXCEPT
                    !.bVal = [a \in Axes |-> IF a = "RA" THEN bRA ELSE bDC],
                    !.atmega162 = mcu,
                    !.timerOVF = [a \in Axes |-> [k \in Slots |-> 0]],
                    !.boot = "rateRA"]

\* systemInitialiser(): calculateRate(RA), then calculateRate(DC)
BootRate(a) ==
    /\ sys.boot = (IF a = "RA" THEN "rateRA" ELSE "rateDC")
    /\ sys' = [sys EXCEPT
                  !.timerOVF[a] = calculateRate(sys.bVal[a], sys.atmega162),
                  !.boot = IF a = "RA" THEN "rateDC" ELSE "done"]
    /\ UNCHANGED << mot, engineCfg, fg, hist, budget >>

NextRate == \E a \in Axes : BootRate(a)

SpecRate == InitRate /\ [][NextRate]_vars

RECURSIVE SumSlots(_, _)
SumSlots(table, k) ==
    IF k < 0 THEN 0 ELSE table[k] + SumSlots(table, k - 1)

\* round(32 * 8000000 / bVal)
IdealSum(divisor) ==
    (2 * DecimalDistnWidth * timerCountRate + divisor) \div (2 * divisor)

RateBuilt(a) == sys.boot = "done" \/ (a = "RA" /\ sys.boot = "rateDC")
\* the ideal period is inside the range the clamps leave alone
Unclamped(divisor) == clampRate(timerCountRate \div divisor) = timerCountRate \div divisor

\* C12: for every valid bVal calculateRate fills the 32 slots so that their
\* sum is round(32 * 8000000 / bVal) within 1 (where the period is not
\* clamped), every entry lies in [128, 65535] (also when the base period is
\* clamped and extra ticks are added), and any two entries differ by at most
\* one tick.
RateFidelity ==
    \A a \in Axes :
        RateBuilt(a) =>
            LET P == sys.timerOVF[a]
            IN  /\ Unclamped(sys.bVal[a])
                      => Abs(SumSlots(P, DecimalDistnWidth - 1)
                                - IdealSum(sys.bVal[a])) <= 1
                /\ \A k \in Slots : P[k] >= 128 /\ P[k] <= 65535
                /\ \A k, l \in Slots : Abs(P[k] - P[l]) <= 1

(***************************************************************************)
(* SpecSpeed: I commands to one axis at any time the main loop reads a     *)
(* command: while the axis is at rest, armed, starting or slewing.  The    *)
(* payloads are the periods of IValues and one payload that does not fit   *)
(* 16 bits (the period word read by motorStart is an unsigned int).        *)
(***************************************************************************)
WideIValues == {65536 + 1}

InitSpeed ==
    InitWith(SpecTables, {TopPeriod - 1}, {TopPeriod}, {TRUE},
             { [host |-> MaxHostCmds - 1, st4 |-> 0, live |-> MaxLiveCmds,
                speed |-> MaxHostCmds - 1, wide |-> MaxLiveCmds,
                axes |-> {a}] : a \in Axes })

SpeedHost ==
    /\ budget.host > 0
    /\ \E a \in budget.axes :
          /\ AtRest(a)
          /\ \/ \E mode \in SlewModes : CmdG(a, mode, "CMD_FORWARD")
             \/ CmdJ(a)
    /\ Spend("host")

SpeedStop ==
    /\ budget.live > 0
    /\ \E a \in budget.axes : ~mot[a].stopped /\ CmdK(a)
    /\ Spend("live")

SpeedCmd ==
    /\ budget.speed > 0
    /\ \E a \in budget.axes, v \in IValues : CmdI(a, v)
    /\ Spend("speed")

SpeedCmdWide ==
    /\ budget.wide > 0
    /\ \E a \in budget.axes, v \in WideIValues : CmdI(a, v)
    /\ Spend("wide")

NextSpeed ==
    \/ (\E a \in Axes : TickBounded(a)) /\ UNCHANGED budget
    \/ MainLoop
    \/ SpeedHost
    \/ SpeedStop
    \/ SpeedCmd
    \/ SpeedCmdWide

SpecSpeed == InitSpeed /\ [][NextSpeed]_vars

\* what an I command does besides storing the period: with readyToGo = 2 it
\* calls motorStart and touches nothing else, otherwise it clears readyToGo
SpeedEffect(a) ==
    /\ mot[a].readyToGo = 2
          => /\ fg'.pc = "ms_sample" /\ fg'.ret = "cmdI" /\ fg'.axis = a
             /\ mot'[a] = [mot[a] EXCEPT !.IVal = mot'[a].IVal]
    /\ mot[a].readyToGo # 2
          => /\ fg'.pc \in {"idle", "chk"}
             /\ mot'[a] = [mot[a] EXCEPT !.IVal = mot'[a].IVal,
                                         !.readyToGo = 0]
\* the motorStart called by the I command returns: the engine runs toward
\* the stored period
Retargeted(a) ==
    (fg.pc = "ms_commit" /\ fg.ret = "cmdI" /\ fg.axis = a
        /\ fg'.pc # "ms_commit")
        => /\ mot'[a].currentIVal = mot[a].IVal
           /\ ~mot'[a].stopped /\ mot'[a].icie
           /\ mot'[a].readyToGo = 2

MIN_IVAL == 50

\* checkEEPROM: the id string is read from the EEPROM, the values from RAM
checkEEPROM ==
    /\ sys.eepromId
    /\ sys.driverVersion <= DRV8834
    /\ ~(sys.driverVersion = A498x /\ sys.microstepConf > 16)
    /\ sys.microstepConf <= 32
    /\ \A a \in Axes : siderealIVal[a] <= 1200 /\ siderealIVal[a] >= MIN_IVAL
    /\ \A a \in Axes : normalGotoSpeed[a] # 0

\* 'D': axis 1 stores the step mode, axis 0 the driver version
CmdD(a, v) ==
    /\ fg.pc = "idle"
    /\ IF a = "DC"
       THEN /\ sys' = [sys EXCEPT !.microstepConf = U8(v),
                                  !.response = [error |-> FALSE, data |-> 0]]
            /\ canJumpToHighspeed' = (U8(v) >= 8)
       ELSE /\ sys' = [sys EXCEPT !.driverVersion = U8(v),
                                  !.response = [error |-> FALSE, data |-> 0]]
            /\ UNCHANGED canJumpToHighspeed
    /\ fg' = afterCmd(mot)
    /\ UNCHANGED << mot, hist, accelTable, normalGotoSpeed, siderealIVal,
                    gotoDecelerationLength, encodeDirection, st4 >>

\* 'Z': store the goto speed factor
CmdZ(a, v) ==
    /\ fg.pc = "idle"
    /\ normalGotoSpeed' = [normalGotoSpeed EXCEPT ![a] = U8(v)]
    /\ Respond(FALSE, 0)
    /\ fg' = afterCmd(mot)
    /\ UNCHANGED << mot, hist, accelTable, siderealIVal,
                    gotoDecelerationLength, canJumpToHighspeed,
                    encodeDirection, st4 >>

\* 'N': cmd_setsideIVal (not part of src/) stores the sidereal period
CmdN(a, v) ==
    /\ fg.pc = "idle"
    /\ siderealIVal' = [siderealIVal EXCEPT ![a] = U16(v)]
    /\ Respond(FALSE, 0)
    /\ fg' = afterCmd(mot)
    /\ UNCHANGED << mot, hist, accelTable, normalGotoSpeed,
                    gotoDecelerationLength, canJumpToHighspeed,
                    encodeDirection, st4 >>

\* 'Y': store the index, then answer with an error when it is out of range
CmdY(a, v) ==
    /\ fg.pc = "idle"
    /\ mot' = [mot EXCEPT ![a].accelTableIndex = U8(v)]
    /\ Respond(U8(v) >= AccelTableLength, 0)
    /\ fg' = afterCmd(mot')
    /\ UNCHANGED << engineCfg, hist >>

\* 'x': return the entry at the index (speed in the low word, repeats in the
\* third byte), then advance the index and wrap it at AccelTableLength.  An
\* index outside the table reads memory beyond it: any value.
Cmdx(a) ==
    /\ fg.pc = "idle"
    /\ LET idx == mot[a].accelTableIndex
           next == IF U8(idx + 1) >= AccelTableLength THEN 0 ELSE U8(idx + 1)
       IN  /\ mot' = [mot EXCEPT ![a].accelTableIndex = next]
           /\ IF idx < AccelTableLength
              THEN Respond(FALSE, accelTable[a][idx].speed
                                    + 65536 * accelTable[a][idx].repeats)
              ELSE \E data \in {0, 65535} : Respond(FALSE, data)
    /\ fg' = afterCmd(mot')
    /\ UNCHANGED << engineCfg, hist >>

\* 'O': set the programming mode; a mode other than 0 stops and disables
\* both axes
cmdO(mm, v) ==
    IF v # 0 THEN [a \in Axes |-> [cmdL(mm[a]) EXCEPT !.readyToGo = 0]]
    ELSE mm

CmdO(v) ==
    /\ fg.pc = "idle"
    /\ mot' = cmdO(mot, v)
    /\ sys' = [sys EXCEPT !.progMode = v,
                          !.response = [error |-> FALSE, data |-> 0]]
    /\ fg' = afterCmd(mot')
    /\ UNCHANGED << engineCfg, hist >>

\* 'T': with bit 1 of progMode write the EEPROM (buildEEPROM writes the id
\* string, storeEEPROM the values), with bit 0 alone validate it
CmdT ==
    /\ fg.pc = "idle"
    /\ IF (sys.progMode \div 2) % 2 = 1
       THEN sys' = [sys EXCEPT
                      !.eepromId = IF sys.progMode % 2 = 1 THEN TRUE ELSE @,
                      !.response = [error |-> FALSE, data |-> 0]]
       ELSE Respond(sys.progMode % 2 = 1 /\ ~checkEEPROM, 0)
    /\ fg' = afterCmd(mot)
    /\ UNCHANGED << mot, engineCfg, hist >>

(***************************************************************************)
(* SpecConfig: boot with every kind of EEPROM content (id string missing,  *)
(* driver family, step mode, sidereal period or goto speed out of range),  *)
(* then configuration commands with payloads in and out of range, O, T, F  *)
(* and J, and the main loop that starts what J armed.                      *)
(***************************************************************************)
GoodConfig == { << "D", "RA", DRV8834 >>, << "D", "DC", 32 >>,
                << "Z", "RA", TopPeriod - 1 >>, << "N", "RA", 1200 >>,
                << "Y", "RA", AccelTableLength - 1 >>, << "x", "RA", 0 >> }
BadConfig == { << "D", "RA", DRV8834 + 1 >>, << "D", "DC", 33 >>,
               << "Z", "RA", 0 >>, << "N", "RA", MIN_IVAL - 1 >>,
               << "N", "DC", 1201 >>, << "Y", "RA", AccelTableLength >> }

ConfigCmd(c) ==
    \/ c[1] = "D" /\ CmdD(c[2], c[3])
    \/ c[1] = "Z" /\ CmdZ(c[2], c[3])
    \/ c[1] = "N" /\ CmdN(c[2], c[3])
    \/ c[1] = "Y" /\ CmdY(c[2], c[3])
    \/ c[1] = "x" /\ Cmdx(c[2])

\* systemInitialiser(): progMode after checkEEPROM
InitConfig ==
    /\ InitBoot(SpecTables, {0, TopPeriod - 1}, {MIN_IVAL - 1, MIN_IVAL},
                {TopPeriod}, {TRUE},
                { [host |-> 0, st4 |-> 0, live |-> 0, conf |-> 1, bad |-> 1,
                   mode |-> 2, test |-> 1, enable |-> 1,
                   arm |-> 1, axes |-> {"RA"}] })
    /\ \E id \in BOOLEAN, dv \in {A498x, DRV8834 + 1}, ms \in {16, 32} :
          LET read == [InitSys EXCEPT !.eepromId = id, !.driverVersion = dv,
                                      !.microstepConf = ms]
              valid == /\ id /\ dv <= DRV8834 /\ ~(dv = A498x /\ ms > 16)
                       /\ \A a \in Axes : /\ siderealIVal[a] >= MIN_IVAL
                                          /\ normalGotoSpeed[a] # 0
          IN  sys = [read EXCEPT !.progMode = IF valid THEN RUNMODE
                                                       ELSE PROGMODE]

ConfigGood ==
    /\ budget.conf > 0
    /\ \E c \in GoodConfig : ConfigCmd(c)
    /\ Spend("conf")

ConfigBad ==
    /\ budget.bad > 0
    /\ \E c \in BadConfig : ConfigCmd(c)
    /\ Spend("bad")

ConfigMode ==
    /\ budget.mode > 0
    /\ \E v \in 0 .. 3 : CmdO(v)
    /\ Spend("mode")

ConfigTest == budget.test > 0 /\ CmdT /\ Spend("test")

ConfigEnable ==
    /\ budget.enable > 0
    /\ \E a \in budget.axes : CmdF(a)
    /\ Spend("enable")

ConfigArm ==
    /\ budget.arm > 0
    /\ \E a \in budget.axes : CmdJ(a)
    /\ Spend("arm")

NextConfig ==
    \/ MainLoop
    \/ ConfigGood
    \/ ConfigBad
    \/ ConfigMode
    \/ ConfigTest
    \/ ConfigEnable
    \/ ConfigArm

SpecConfig == InitConfig /\ [][NextConfig]_vars

\* everything but the response packet and the main loop's position
StateBesidesResponse ==
    << mot, engineCfg, [sys EXCEPT !.response = [error |-> FALSE, data |-> 0]] >>

\* C14: a configuration command whose payload is out of range (D, Z, N, Y)
\* produces an error response and leaves all state, accelTableIndex,
\* driverVersion, microstepConf and normalGotoSpeed included, unchanged.
ConfigRejects ==
    [][(budget'.bad # budget.bad)
          => /\ sys'.response.error
             /\ StateBesidesResponse' = StateBesidesResponse]_vars

\* C15: with an invalid configuration at boot the firmware is in programming
\* mode and does not leave it while the configuration is still invalid; in
\* programming mode J never arms a movement and is answered with an error
\* packet.
ProgModeHolds ==
    /\ (~checkEEPROM => sys.progMode # 0)
    /\ [][/\ (sys.progMode # 0 /\ ~checkEEPROM') => sys'.progMode # 0
          /\ (budget'.arm # budget.arm /\ sys.progMode # 0)
                => /\ \A a \in Axes : mot'[a].readyToGo = mot[a].readyToGo
                   /\ sys'.response.error]_vars

\* C16: an F command received while progMode is not 0 answers with an error
\* packet and changes nothing of either axis (no enable pin, no timer); in
\* run mode it drives the axis's enable pin low, marks the axis enabled and
\* answers normally.
EnableOnlyInRunMode ==
    [][(budget'.enable # budget.enable)
          => IF sys.progMode # 0
             THEN sys'.response.error /\ mot' = mot
             ELSE /\ ~sys'.response.error
                  /\ \E a \in budget.axes :
                        /\ ~mot'[a].enablePin
                        /\ mot'[a].FVal
                        /\ mot' = configureTimer([mot EXCEPT ![a] = mot'[a]])]_vars

\* an F command was refused in programming mode: the last packet is its
\* error packet and the driver is still disabled
EnableRefusedSeen ==
    /\ budget.enable = 0
    /\ budget.test = 1
    /\ budget.bad = 1
    /\ sys.progMode # 0
    /\ sys.response.error
    /\ \A a \in Axes : mot[a].enablePin /\ ~mot[a].FVal

(***************************************************************************)
(* The 'b' command of decodeCommand                                        *)
(***************************************************************************)
\* (x * m) / d as the AVR computes it in unsigned long: the product is cut
\* to 32 bits, then divided. x < 2^32, m < 2^15 and 0 < d < 2^15; the 32-bit
\* words are handled as two 16-bit halves.
mulDiv32(x, m, d) ==
    LET p0 == (x % 65536) * m
        lo16 == p0 % 65536
        hi16 == ((x \div 65536) * m + p0 \div 65536) % 65536
        q1 == hi16 \div d
        q2 == ((hi16 % d) * 65536 + lo16) \div d
    IN  q1 * 65536 + q2

bResponse(a) ==
    IF sys.progMode = 0
    THEN LET correction == U16(siderealIVal[a] * 2)
         IN  mulDiv32(sys.bVal[a], U16(correction + 1), correction)
    ELSE sys.bVal[a]

Cmdb(a) ==
    /\ fg.pc = "idle"
    /\ Respond(FALSE, bResponse(a))
    /\ fg' = afterCmd(mot)
    /\ UNCHANGED << mot, engineCfg, hist >>

(***************************************************************************)
(* SpecQuery: the b command for step rates over the 24-bit range and       *)
(* sidereal periods at both ends of and inside [MIN_IVAL, 1200], in run    *)
(* mode and in programming mode.                                           *)
(***************************************************************************)
QueryBValues == {1, 99, 2400, 40000, 64000, 1788824, 1788825, 8000000, 16777215}
QuerySidereals == {MIN_IVAL, 600, 1200}

InitQuery ==
    /\ InitBoot(SpecTables, {TopPeriod - 1}, QuerySidereals, {TopPeriod},
                {TRUE},
                { [host |-> 0, st4 |-> 0, live |-> 0, query |-> 1,
                   axes |-> {a}] : a \in Axes })
    /\ \E bRA \in QueryBValues, bDC \in QueryBValues, pm \in {RUNMODE, PROGMODE} :
          sys = [InitSys EXCEPT !.bVal = [a \in Axes |-> IF a = "RA" THEN bRA
                                                                     ELSE bDC],
                                !.progMode = pm]

QueryRate ==
    /\ budget.query > 0
    /\ \E a \in budget.axes : Cmdb(a)
    /\ Spend("query")

NextQuery == QueryRate

SpecQuery == InitQuery /\ [][NextQuery]_vars

\* C20: the b response is bVal unchanged in programming mode and
\* (bVal * (2*siderealIVal + 1)) / (2*siderealIVal) with integer division
\* outside it, for every 24-bit bVal and siderealIVal in [MIN_IVAL, 1200].
\* (The quotient is bVal + bVal \div (2*siderealIVal).)
RateReplyExact ==
    [][(budget'.query # budget.query)
          => \E a \in budget.axes :
                sys'.response.data =
                   IF sys.progMode # 0 THEN sys.bVal[a]
                   ELSE sys.bVal[a] + sys.bVal[a] \div (2 * siderealIVal[a])]_vars

(***************************************************************************)
(* Hand-controller probe: standaloneModeTest() and the election in main()  *)
(***************************************************************************)
IrqLines == {"float", "low", "high"}

\* what getPinValue reads on the IRQ pin: a driven line reads as it is
\* driven, a floating line follows the pull resistor
irqReads(irq, pullHigh) == IF irq = "float" THEN pullHigh ELSE irq = "high"

standaloneModeTest(allow, irq) ==
    IF allow
    THEN \* internal pull-up only, no test for the advanced controller
         IF ~irqReads(irq, TRUE) THEN "BASIC_HC_MODE" ELSE "EQMOD_MODE"
    ELSE IF irqReads(irq, FALSE) THEN "ADVANCED_HC_MODE"
    ELSE IF ~irqReads(irq, TRUE) THEN "BASIC_HC_MODE"
    ELSE "EQMOD_MODE"

\* main(): loopCount wrapped to 0 outside standalone mode: probe, and on a
\* standalone mode stop both motors (interrupts stay enabled)
probeAllowed(standalone) == ~standalone

Probe ==
    /\ fg.pc = "idle"
    /\ probeAllowed(sys.standaloneMode)
    /\ LET mode == standaloneModeTest(sys.allowAdvancedHCDetection, sys.irq)
       IN  /\ sys' = [sys EXCEPT !.hcMode = mode, !.probes = @ + 1]
           /\ IF mode # "EQMOD_MODE"
              THEN /\ mot' = [a \in Axes |-> motorStop(mot[a], TRUE)]
                   /\ fg' = [fg EXCEPT !.pc = "elect"]
              ELSE mot' = mot /\ fg' = afterCmd(mot)
    /\ hist' = [a \in Axes |-> IF mot'[a] # mot[a] THEN histCut(hist[a])
                                                  ELSE hist[a]]
    /\ UNCHANGED engineCfg

\* the basic hand controller's setup: drivers enabled, both axes in slew mode
\* forward, RA armed at the sidereal period.  Commands_configureST4Speed is
\* not part of src/; the guide periods are left as they are.
basicSetup(mm) ==
    LET en == configureTimer([a \in Axes |-> motorEnablePin(mm[a])])
    IN  [a \in Axes |->
           IF a = "RA"
           THEN [en[a] EXCEPT !.GVal = 1, !.dir = "CMD_FORWARD",
                              !.IVal = siderealIVal["RA"], !.readyToGo = 1]
           ELSE [en[a] EXCEPT !.GVal = 1, !.dir = "CMD_FORWARD"]]

\* main(): the masked section that resets both positions, then the setup of
\* the elected mode
Elect ==
    /\ fg.pc = "elect"
    /\ LET mid == [a \in Axes |-> [mot[a] EXCEPT !.jVal = JMid]]
       IN  IF sys.hcMode = "ADVANCED_HC_MODE"
           THEN /\ mot' = mid
                /\ sys' = [sys EXCEPT !.standaloneMode = TRUE,
                                      !.syntaMode = TRUE, !.pcMask = FALSE]
           ELSE /\ mot' = basicSetup(mid)
                /\ sys' = [sys EXCEPT !.standaloneMode = TRUE,
                                      !.syntaMode = FALSE]
    /\ fg' = afterCmd(mot')
    /\ UNCHANGED << engineCfg, hist >>

(***************************************************************************)
(* SpecProbe: the host sets up and starts movements while the firmware is  *)
(* in EQMOD mode (or talks Synta to an advanced controller), the main loop *)
(* probes the IRQ line, which floats or is driven low or high, the ST4     *)
(* pins change while their interrupt is enabled, the timers tick.          *)
(***************************************************************************)
MaxProbes == 2

InitProbe ==
    /\ InitCore(SpecTables, {TopPeriod - 1}, {TopPeriod}, {TRUE},
                { [host |-> MaxHostCmds - 1, st4 |-> MaxST4Events, live |-> 0,
                   probe |-> MaxProbes, axes |-> {a}] : a \in Axes })
    /\ \E allow \in BOOLEAN, irq \in IrqLines :
          sys = [InitSys EXCEPT !.allowAdvancedHCDetection = allow,
                                !.irq = irq]

ProbeModes == {1, 2}

ProbeHost ==
    /\ sys.syntaMode
    /\ budget.host > 0
    /\ \E a \in budget.axes :
          \/ \E mode \in ProbeModes : CmdG(a, mode, "CMD_FORWARD")
          \/ CmdJ(a)
    /\ Spend("host")

ProbePinChange ==
    /\ sys.pcMask
    /\ budget.st4 > 0
    /\ ST4Event({"none", "minus"}, {"none"})
    /\ Spend("st4")

ProbeLine ==
    /\ budget.probe > 0
    /\ Probe
    /\ Spend("probe")

NextProbe ==
    \/ TimersST4
    \/ MainLoop
    \/ MainLoopSkip /\ UNCHANGED budget
    \/ ProbeHost
    \/ ProbePinChange
    \/ ProbeLine
    \/ Elect /\ UNCHANGED budget

SpecProbe == InitProbe /\ [][NextProbe]_vars

\* the mode the claim gives for a state of the IRQ line
LineMode(irq) ==
    IF irq = "float" THEN "EQMOD_MODE"
    ELSE IF irq = "low" THEN "BASIC_HC_MODE" ELSE "ADVANCED_HC_MODE"

Elected == ~sys.standaloneMode /\ sys'.standaloneMode

\* C18: when the probe elects a standalone mode both axes are
\* emergency-stopped and both jVal are 0x800000 (mid-range) before anything
\* else moves; in basic mode RA is armed and then started as a forward slew
\* at the sidereal period; once standalone mode is entered the firmware
\* never probes again and never returns to EQMOD mode.
StandaloneElection ==
    [][/\ Elected =>
            /\ \A a \in Axes : /\ mot'[a].jVal = JMid
                               /\ mot'[a].stopped
                               /\ ~TickEnabled(mot'[a])
            /\ sys'.hcMode = "BASIC_HC_MODE" =>
                  /\ mot'["RA"].readyToGo = 1
                  /\ mot'["RA"].GVal = 1
                  /\ mot'["RA"].dir = "CMD_FORWARD"
                  /\ mot'["RA"].IVal = siderealIVal["RA"]
       /\ (sys.standaloneMode /\ sys.hcMode = "BASIC_HC_MODE"
             /\ fg.axis = "RA" /\ StartReturns("RA")) =>
            /\ mot'["RA"].readyToGo = 2
            /\ ~mot'["RA"].stopped
            /\ mot'["RA"].stepDir = 1
            /\ mot'["RA"].IVal = siderealIVal["RA"]
       /\ sys.standaloneMode =>
            /\ sys'.standaloneMode
            /\ sys'.probes = sys.probes
            /\ sys'.hcMode = sys.hcMode]_vars

(***************************************************************************)
(* SpecWrap: the host places an axis at rest near the ends of the          *)
(* protocol's position range (E), sets up a goto in either direction       *)
(* (G, H, J) and lets it run to its end across those ends.                 *)
(***************************************************************************)
WrapEValues == {3, PosModulus - 4}
WrapHValues == {17, 48}

InitWrap ==
    InitWith(SpecTables, {TopPeriod - 1}, {TopPeriod}, {TRUE, FALSE},
             { [host |-> MaxHostCmds + 1, st4 |-> 0, live |-> 0,
                axes |-> {a}] : a \in Axes })

WrapSetup ==
    /\ budget.host > 0
    /\ \E a \in budget.axes :
          /\ AtRest(a)
          /\ \/ \E v \in WrapEValues : CmdE(a, v)
             \/ \E mode \in GotoModes, dir \in Dirs : CmdG(a, mode, dir)
             \/ \E v \in WrapHValues : CmdH(a, v)
             \/ CmdJ(a)
    /\ Spend("host")

NextWrap ==
    \/ Timers
    \/ MainLoop
    \/ WrapSetup

SpecWrap == InitWrap /\ [][NextWrap]_vars

\* the capture interrupt of axis a completes a pulse
PulseCompletes(a) == mot[a].stepPin /\ ~mot'[a].stepPin /\ fg' = fg

ReadModifyWriteMasked ==
    fg.pc \in {"ms_decide", "ms_commit"} => ~mot[fg.axis].icie

\* C22: the direction pin and the microstep mode pins of an axis are written
\* only by the foreground and only while that axis is stopped: a step that
\* changes either pin is a step of the foreground and finds the axis stopped.
PinsWrittenAtRest ==
    [][\A a \in Axes :
          (mot'[a].dirPin # mot[a].dirPin \/ mot'[a].modePins # mot[a].modePins)
             => (mot[a].stopped /\ fg' # fg)]_vars

\* C23: in every reachable state highSpeedMode[axis] implies
\* |stepDir[axis]| = 8, also after ST4 button events during a high-speed
\* slew.
HighSpeedStepsByEight ==
    \A a \in Axes : mot[a].highSpeedMode => Abs(mot[a].stepDir) = 8

\* C24: in every reachable state accelIndex[axis] lies in
\* [0, AccelTableLength), after any sequence of host commands, the accel-table
\* access commands x and Y included.
AccelIndexInTable ==
    \A a \in Axes : mot[a].accelTableIndex \in 0 .. (AccelTableLength - 1)

\* the capture interrupt of axis a raises the step pin with no dwell left:
\* the engine compares the current period with the target and updates it
SpeedUpdates(a) ==
    /\ ~mot[a].stepPin /\ mot'[a].stepPin
    /\ mot[a].accelTableRepeatsLeft = 0

\* C25: every accel/decel update of the Step Engine moves currentSpeed toward
\* targetSpeed and never past it or away from it: from a period above the
\* target the new period v has target <= v <= old, from one below it
\* old <= v <= target, for every accelIndex the axis can hold.
SpeedMovesTowardTarget ==
    [][\A a \in Axes :
          SpeedUpdates(a) =>
             LET old == mot[a].currentMotorSpeed
                 target == mot[a].currentIVal
                 v == mot'[a].currentMotorSpeed
             IN  /\ old > target => (target <= v /\ v <= old)
                 /\ old < target => (old <= v /\ v <= target)]_vars


\* a capture interrupt of axis a runs on this step
TickStep(a) ==
    /\ TickEnabled(mot[a]) /\ fg' = fg /\ budget' = budget
    /\ \/ mot'[a].stepPin # mot[a].stepPin
       \/ mot'[a].irqToNextStep # mot[a].irqToNextStep

\* the tick of this step completes a pulse at a period slower than stopSpeed
HaltingPulse(a) ==
    /\ TickStep(a) /\ mot[a].stepPin /\ ~mot'[a].stepPin
    /\ mot[a].currentMotorSpeed > mot[a].stopSpeed

\* C26: except by an emergency stop an axis becomes stopped only on a tick
\* that completes a pulse while currentSpeed > stopSpeed; every other tick
\* leaves stopped and the timer enable unchanged; every such pulse-completing
\* tick stops the axis (stopped, timer and capture interrupt off) and clears
\* gotoRunning and gotoEn if a goto was running.
EngineStopsOnPulse ==
    [][\A a \in Axes :
          /\ (~mot[a].stopped /\ mot'[a].stopped)
                => (HaltingPulse(a) \/ (~hist[a].lStop /\ hist'[a].lStop))
          /\ (TickStep(a) /\ ~HaltingPulse(a))
                => /\ mot'[a].stopped = mot[a].stopped
                   /\ mot'[a].timerOn = mot[a].timerOn
                   /\ mot'[a].icie = mot[a].icie
          /\ HaltingPulse(a)
                => /\ mot'[a].stopped /\ ~mot'[a].timerOn /\ ~mot'[a].icie
                   /\ mot[a].gotoRunning
                         => (~mot'[a].gotoRunning /\ ~mot'[a].gotoEn)]_vars

\* the engine itself ended a goto: stopped, timer off, goto flags cleared
EngineStoppedGoto ==
    \E a \in Axes :
        /\ hist[a].moving = "goto" /\ hist[a].ended /\ ~hist[a].lStop
        /\ mot[a].stopped /\ ~mot[a].timerOn
        /\ ~mot[a].gotoRunning /\ ~mot[a].gotoEn


(***************************************************************************)
(* SpecPosition: every writer of jVal in one scenario: the capture         *)
(* interrupts of a slew, the E command at any moment, and the reset made   *)
(* when a probe elects a standalone mode.                                  *)
(***************************************************************************)
PositionEValues == {0, JMid + 5}

InitPosition ==
    /\ InitCore(SpecTables, {TopPeriod - 1}, {TopPeriod}, {TRUE},
                { [host |-> MaxHostCmds - 1, st4 |-> 0, live |-> 0,
                   probe |-> 1, sync |-> 1, axes |-> {a}] : a \in Axes })
    /\ \E irq \in IrqLines :
          sys = [InitSys EXCEPT !.allowAdvancedHCDetection = TRUE,
                                !.irq = irq]

PositionHost ==
    /\ sys.syntaMode
    /\ budget.host > 0
    /\ \E a \in budget.axes :
          \/ \E mode \in ProbeModes, dir \in Dirs : CmdG(a, mode, dir)
          \/ CmdJ(a)
    /\ Spend("host")

PositionSync ==
    /\ sys.syntaMode
    /\ budget.sync > 0
    /\ \E a \in budget.axes, v \in PositionEValues : CmdE(a, v)
    /\ Spend("sync")

NextPosition ==
    \/ TimersST4
    \/ MainLoop
    \/ PositionHost
    \/ PositionSync
    \/ ProbeLine
    \/ Elect /\ UNCHANGED budget

SpecPosition == InitPosition /\ [][NextPosition]_vars

\* C27: the Step Engine changes jVal only on a tick that completes a pulse,
\* and then by exactly stepDir (in the arithmetic of the unsigned word);
\* ticks that count down irqToNext or raise the step pin leave jVal
\* unchanged; the foreground changes jVal only through the E command and
\* the standalone-mode reset.
PositionChangesOnPulse ==
    [][\A a \in Axes :
          /\ (TickStep(a) /\ PulseCompletes(a))
                => mot'[a].jVal =
                      (mot[a].jVal + mot[a].stepDir) % (2 ^ JValBits)
          /\ (TickStep(a) /\ ~PulseCompletes(a))
                => mot'[a].jVal = mot[a].jVal
          /\ (mot'[a].jVal # mot[a].jVal)
                => \/ TickStep(a) /\ PulseCompletes(a)
                   \/ budget'.sync # budget.sync
                   \/ Elected]_vars

\* a slew has moved the position after an E command set it
PositionSyncedThenStepped ==
    \E a \in Axes :
        /\ budget.sync = 0 /\ ~sys.standaloneMode
        /\ ~mot[a].stopped /\ ~mot[a].stepPin
        /\ mot[a].jVal \notin (PositionEValues \cup {JMid})


(***************************************************************************)
(* SpecPlan: gotoMode as a function of its inputs.  Every table of the     *)
(* family, every goto period, both settings of canJumpToHighspeed; the     *)
(* host arms a goto on a stopped axis (G, H, J), with or without a Z that   *)
(* changes the goto period first, and the main loop runs gotoMode to its   *)
(* return.                                                                 *)
(***************************************************************************)
PlanHValues == {0, 2, 17, 28, 30, 100}

InitPlan ==
    InitWith(AccelTables, GotoSpeeds, {TopPeriod}, {TRUE, FALSE},
             { [host |-> MaxHostCmds, st4 |-> 0, live |-> 0, axes |-> {a}] :
                 a \in Axes })

PlanSetup ==
    /\ budget.host > 0
    /\ \E a \in budget.axes :
          /\ AtRest(a)
          /\ \/ \E mode \in GotoModes, dir \in Dirs : CmdG(a, mode, dir)
             \/ \E v \in PlanHValues : CmdH(a, v)
             \/ \E v \in GotoSpeeds : CmdZ(a, v)
             \/ CmdJ(a)
    /\ Spend("host")

NextPlan ==
    \/ MainLoop
    \/ PlanSetup

SpecPlan == InitPlan /\ [][NextPlan]_vars

\* gotoMode returns for axis a on this step
GotoReturns(a) == StartReturns(a) /\ fg.ret = "goto"

\* sum of repeats + 1 over the table entries slower than the goto period
SlowerEntries(a) ==
    { i \in TableIdx : accelTable[a][i].speed > normalGotoSpeed[a] }
RECURSIVE SumRepeats(_, _)
SumRepeats(a, S) ==
    IF S = {} THEN 0
    ELSE LET i == CHOOSE x \in S : TRUE
         IN  accelTable[a][i].repeats + 1 + SumRepeats(a, S \ {i})

\* HVal raised to at least 2*|stepDir|
RaisedHVal(a) ==
    IF hist'[a].hReq < 2 * Abs(mot'[a].stepDir)
    THEN 2 * Abs(mot'[a].stepDir) ELSE hist'[a].hReq
\* HVal': low 3 bits cleared in high-speed mode
PlanHVal(a) ==
    IF mot'[a].highSpeedMode THEN RaisedHVal(a) - (RaisedHVal(a) % 8)
                             ELSE RaisedHVal(a)
\* the deceleration length before it is clamped
FullDecel(a) ==
    SumRepeats(a, SlowerEntries(a)) * Abs(mot'[a].stepDir)
       * (IF mot'[a].highSpeedMode THEN 3 ELSE 1)
Least(x, y) == IF x < y THEN x ELSE y

\* what the claim asserts of the plan for a deceleration length D
PlanWith(a, D) ==
    /\ mot'[a].gotoPosn =
          (mot'[a].jVal + (IF mot'[a].dir = "CMD_REVERSE"
                           THEN 2 ^ JValBits - (PlanHVal(a) - D)
                           ELSE PlanHVal(a) - D)) % (2 ^ JValBits)
    /\ PlanHVal(a) - D > 0
    /\ (PlanHVal(a) - D) % Abs(mot'[a].stepDir) = 0
    /\ mot'[a].currentIVal = normalGotoSpeed[a]
    /\ ~mot'[a].gotoDecelerating
    /\ mot'[a].gotoRunning

\* half of HVal as the code takes it: half the raised HVal, its low 3 bits
\* cleared in high-speed mode
MaskedHalf(a) ==
    LET half0 == RaisedHVal(a) \div 2
    IN  IF mot'[a].highSpeedMode THEN half0 - (half0 % 8) ELSE half0

\* C28: when goto(axis) returns, gotoTarget = jVal + sign(dir) * (HVal' - D),
\* HVal' being HVal raised to at least 2*|stepDir| with its low 3 bits cleared
\* in high-speed mode and D the deceleration length (sum of repeats + 1 over
\* the table entries slower than normalGotoSpeed, times |stepDir|, times 3 in
\* high-speed mode) clamped to HVal/2, for whichever of the requested, the
\* raised or the masked HVal is halved, and also for the half masked as the
\* code masks it; HVal' - D is a positive multiple of |stepDir|, targetSpeed =
\* normalGotoSpeed, gotoDecelerating is clear and gotoRunning is set.
GotoPlanMatchesTable ==
    [][\A a \in Axes :
          GotoReturns(a) =>
             \E half \in { hist'[a].hReq \div 2, RaisedHVal(a) \div 2,
                           PlanHVal(a) \div 2, MaskedHalf(a) } :
                PlanWith(a, Least(FullDecel(a), half))]_vars


(***************************************************************************)
(* SpecDwell: a high-speed slew up a table whose middle entries carry a    *)
(* repeat count from the whole range of the byte.                          *)
(***************************************************************************)
DwellRepeats == {0, 1, 84, 85, 255}
DwellTables ==
    { [i \in TableIdx |->
         [speed |-> TopPeriod - i,
          repeats |-> IF i = 0 \/ i = AccelTableLength - 1 THEN 0 ELSE r]] :
      r \in DwellRepeats }

InitDwell ==
    InitWith(DwellTables, {1}, {TopPeriod}, {TRUE},
             { [host |-> MaxHostCmds, st4 |-> 0, live |-> 0, axes |-> {a}] :
                 a \in Axes })

DwellSetup ==
    /\ budget.host > 0
    /\ \E a \in budget.axes :
          /\ AtRest(a)
          /\ \/ CmdG(a, 3, "CMD_FORWARD")
             \/ CmdI(a, 1)
             \/ CmdJ(a)
    /\ Spend("host")

NextDwell ==
    \/ (\E a \in Axes : TickBounded(a)) /\ UNCHANGED budget
    \/ MainLoop
    \/ DwellSetup

SpecDwell == InitDwell /\ [][NextDwell]_vars

\* the speed update of this step adopts a table entry and loads its dwell
AdoptsEntry(a) ==
    /\ SpeedUpdates(a)
    /\ mot'[a].accelTableIndex # mot[a].accelTableIndex
    /\ mot'[a].currentMotorSpeed # mot[a].currentIVal

\* C29: in high-speed mode the dwell count loaded for a table entry with
\* repeats r is exactly 3*r + 2, for every 8-bit r.
DwellIsTripled ==
    [][\A a \in Axes :
          (AdoptsEntry(a) /\ mot[a].highSpeedMode)
             => mot'[a].accelTableRepeatsLeft =
                   3 * accelTable[a][mot'[a].accelTableIndex].repeats + 2]_vars


\* motorStart writes the state of axis a and returns on this step
StartCommits(a) == fg.pc = "ms_commit" /\ fg.axis = a /\ fg'.pc # "ms_commit"

Greatest(x, y) == IF x > y THEN x ELSE y

\* C30: start(axis) sets stopSpeed = max(targetSpeed, minSpeed) and sets
\* currentSpeed to stopSpeed if the axis is stopped, to the unchanged current
\* speed if the axis is running faster than minSpeed, and to stopSpeed
\* otherwise; only when the axis was stopped does it reset accelIndex to 0,
\* accelRepeatsLeft to accelTable[0].repeats, distributionSegment to 0,
\* irqToNext to 1 and stopped to false; on a running axis those five fields
\* are left unchanged.
StartSetsSpeeds ==
    [][\A a \in Axes :
          StartCommits(a) =>
             LET m == mot[a]
                 n == mot'[a]
                 stop == Greatest(n.currentIVal, m.minSpeed)
             IN  /\ n.stopSpeed = stop
                 /\ n.currentMotorSpeed =
                       IF m.stopped THEN stop
                       ELSE IF m.currentMotorSpeed < m.minSpeed
                       THEN m.currentMotorSpeed
                       ELSE stop
                 /\ m.stopped =>
                       /\ n.accelTableIndex = 0
                       /\ n.accelTableRepeatsLeft = accelTable[a][0].repeats
                       /\ n.distributionSegment = 0
                       /\ n.irqToNextStep = 1
                       /\ ~n.stopped
                 /\ ~m.stopped =>
                       /\ n.accelTableIndex = m.accelTableIndex
                       /\ n.accelTableRepeatsLeft = m.accelTableRepeatsLeft
                       /\ n.distributionSegment = m.distributionSegment
                       /\ n.irqToNextStep = m.irqToNextStep
                       /\ ~n.stopped]_vars


(***************************************************************************)
(* SpecDither: one movement started from the boot position (a slew in      *)
(* either mode and direction, or the goto of the boot mode) and followed   *)
(* through the whole period table and through the wrap of the byte that    *)
(* counts its half steps.                                                  *)
(***************************************************************************)
DitherIValues == {1, 2, TopPeriod + 2}

InitDither ==
    InitWith(SpecTables, {TopPeriod - 1}, {TopPeriod}, {TRUE},
             { [host |-> MaxHostCmds, st4 |-> 0, live |-> 0, axes |-> {a}] :
                 a \in Axes })

DitherSetup ==
    /\ budget.host > 0
    /\ \E a \in budget.axes :
          /\ AtRest(a) /\ mot[a].jVal = JMid
          /\ \/ \E mode \in SlewModes, dir \in Dirs : CmdG(a, mode, dir)
             \/ \E v \in DitherIValues : CmdI(a, v)
             \/ CmdJ(a)
    /\ Spend("host")

NextDither ==
    \/ Timers
    \/ MainLoop
    \/ DitherSetup

SpecDither == InitDither /\ [][NextDither]_vars

\* steps completed since the start of the movement, modulo the table width:
\* the movement starts at JMid and every step moves jVal by stepDir
StepsSinceStart(a) ==
    LET travel == IF mot[a].stepDir > 0 THEN mot[a].jVal - JMid
                                        ELSE JMid - mot[a].jVal
    IN  ((travel % (2 ^ JValBits)) \div Abs(mot[a].stepDir)) % DecimalDistnWidth

\* the slot whose period is loaded for the step that this tick completes
\* is the number of steps completed before it, modulo 32
SlotFollowsSteps ==
    [][\A a \in Axes :
          (TickStep(a) /\ PulseCompletes(a))
             => mot'[a].ovfSlot = StepsSinceStart(a)]_vars

FirstInterrupt(a) ==
    /\ TickStep(a)
    /\ mot[a].distributionSegment = 0 /\ mot[a].irqToNextStep = 1

\* C32 as claimed: the first rising edge after a start from stopped happens
\* on the first interrupt.
FirstEdgeRises ==
    [][\A a \in Axes : FirstInterrupt(a) => mot'[a].stepPin]_vars

\* C32: while currentSpeed stays at a constant value c >= 1 the step pin
\* alternates with each half lasting exactly c capture interrupts (an
\* interrupt that finds irqToNext above 1 only counts it down, the one that
\* finds it at 1 toggles the pin and reloads it with c), a falling edge
\* advances jVal by one stepDir, and the first edge after a start from
\* stopped happens on the first interrupt: a rising edge when the pin is low.
HalfStepsLastC ==
    [][\A a \in Axes :
          TickStep(a) =>
             LET m == mot[a]
                 n == mot'[a]
             IN  /\ m.irqToNextStep # 1 =>
                       /\ n.stepPin = m.stepPin /\ n.jVal = m.jVal
                       /\ n.irqToNextStep = (m.irqToNextStep + 65535) % 65536
                 /\ m.irqToNextStep = 1 =>
                       /\ n.stepPin = ~m.stepPin
                       /\ n.currentMotorSpeed = m.currentMotorSpeed
                             => n.irqToNextStep = m.currentMotorSpeed
                       /\ m.stepPin =>
                             n.jVal = (m.jVal + m.stepDir) % (2 ^ JValBits)
                       /\ ~m.stepPin => n.jVal = m.jVal
                 /\ (FirstInterrupt(a) /\ ~m.stepPin) => n.stepPin]_vars

\* a slew holds its cruise period, two or more interrupts per half step, has
\* completed a pulse at it and is about to complete the next
CruiseHalfStepSeen ==
    \E a \in Axes :
        /\ ~mot[a].stopped /\ hist[a].cruise >= 1
        /\ mot[a].currentMotorSpeed >= 2
        /\ mot[a].currentMotorSpeed = mot[a].currentIVal
        /\ mot[a].stepPin /\ mot[a].irqToNextStep = 1

(***************************************************************************)
(* SpecProgram: the configuration utility's traffic.  O commands switch    *)
(* the programming mode, Y and X address and store accel-table entries, G  *)
(* and J start a slew, ST4 pins change at any point of the foreground, and  *)
(* the capture interrupts of both axes run.                                *)
(***************************************************************************)
ProgramXValues == {65536 + TopPeriod + 1}
ProgramYValues == {1, AccelTableLength}

\* 'X': store speed (low word) and repeats (third byte) at the index, then
\* advance the index and wrap it at AccelTableLength.  An index outside the
\* table writes memory beyond the axis' row: another entry, or none.
CmdX(a, v) ==
    /\ fg.pc = "idle"
    /\ LET idx == mot[a].accelTableIndex
           next == IF U8(idx + 1) >= AccelTableLength THEN 0 ELSE U8(idx + 1)
           entry == [speed |-> v % 65536, repeats |-> (v \div 65536) % 256]
       IN  /\ mot' = [mot EXCEPT ![a].accelTableIndex = next]
           /\ IF idx < AccelTableLength
              THEN accelTable' = [accelTable EXCEPT ![a][idx] = entry]
              ELSE \/ UNCHANGED accelTable
                   \/ \E b \in Axes \ {a}, i \in TableIdx :
                         accelTable' = [accelTable EXCEPT ![b][i] = entry]
    /\ Respond(FALSE, 0)
    /\ fg' = afterCmd(mot')
    /\ UNCHANGED << hist, normalGotoSpeed, siderealIVal,
                    gotoDecelerationLength, canJumpToHighspeed,
                    encodeDirection, st4 >>

InitProgram ==
    InitWith(SpecTables, {TopPeriod - 1}, {TopPeriod}, {TRUE},
             { [host |-> MaxHostCmds - 1, st4 |-> MaxST4Events, live |-> 0,
                mode |-> 1, axes |-> {"RA"}] })

ProgramHost ==
    /\ budget.host > 0
    /\ \E a \in budget.axes :
          \/ CmdG(a, 1, "CMD_FORWARD")
          \/ CmdJ(a)
          \/ \E v \in ProgramYValues : CmdY(a, v)
          \/ \E v \in ProgramXValues : CmdX(a, v)
    /\ Spend("host")

ProgramMode ==
    /\ budget.mode > 0
    /\ \E v \in {0, 2} : CmdO(v)
    /\ Spend("mode")

NextProgram ==
    \/ TimersST4
    \/ MainLoop
    \/ ProgramHost
    \/ ProgramMode
    \/ PinChange

SpecProgram == InitProgram /\ [][NextProgram]_vars

\* C33: the accel table is written only while both axes are stopped in
\* programming mode: no step changes an accel-table entry while progMode is
\* 0 or while an axis is running, and while progMode is not 0 neither axis
\* is running, also when ST4 pins change.
AccelTableWrittenAtRest ==
    /\ [](sys.progMode # 0 => \A a \in Axes : mot[a].stopped)
    /\ [][accelTable' # accelTable
             => /\ sys.progMode # 0
                /\ \A a \in Axes : mot[a].stopped]_vars

(***************************************************************************)
(* SpecPair: the host moves both axes at once.  J commands start the goto  *)
(* of the mode set at boot on either axis, G sets that mode again, K and L *)
(* stop an axis, and the capture interrupts of both axes run at any point  *)
(* of the foreground.                                                      *)
(***************************************************************************)
MaxPairCmds == 3

InitPair ==
    InitWith(SpecTables, {TopPeriod - 1}, {TopPeriod}, {TRUE},
             { [host |-> MaxPairCmds, st4 |-> 0, live |-> MaxLiveCmds,
                axes |-> Axes] })

PairStart ==
    /\ budget.host > 0
    /\ \E a \in budget.axes :
          \/ CmdJ(a)
          \/ CmdG(a, 0, "CMD_FORWARD")
    /\ Spend("host")

PairStop ==
    /\ budget.live > 0
    /\ \E a \in budget.axes : CmdK(a) \/ CmdL(a)
    /\ Spend("live")

NextPair ==
    \/ Timers
    \/ MainLoop
    \/ PairStart
    \/ PairStop

SpecPair == InitPair /\ [][NextPair]_vars

\* the Motion State fields of an axis
MotionFields(m) ==
    << m.jVal, m.currentMotorSpeed, m.currentIVal, m.stopSpeed,
       m.accelTableIndex, m.accelTableRepeatsLeft, m.stopped,
       m.gotoRunning, m.gotoDecelerating, m.readyToGo >>

\* the main loop is inside its start or goto call on the axis
StartOrGotoStep(a) ==
    /\ fg.axis = a
    /\ fg.pc \in {"goto_plan", "ms_sample", "ms_decide", "ms_commit"}
    /\ budget' = budget
    /\ mot'[a] # mot[a] \/ fg' # fg

\* a K or L command to the axis
StopStep(a) ==
    /\ budget'.live # budget.live
    /\ mot'[a] # mot[a]

\* C34: the two axes are independent: a timer tick of one axis, and a start,
\* stop or goto call on one axis, leave every Motion State field of the
\* other axis unchanged, under every interleaving of the two timer
\* interrupts with the foreground.
AxesIndependent ==
    [][\A a \in Axes :
          (TickStep(a) \/ StartOrGotoStep(a) \/ StopStep(a))
             => MotionFields(mot'[OtherAxis(a)])
                   = MotionFields(mot[OtherAxis(a)])]_vars

\* the periods the ST4 handler selects for RA
ST4RAPeriods == { siderealIVal["RA"], st4.RAIVal[1], st4.RAIVal[2] }

\* the step is an ST4 pin change handled with neither axis in goto mode
ST4Handled ==
    /\ budget'.st4 # budget.st4
    /\ st4Allowed(mot)

\* C35: when the ST4 handler runs with neither axis in goto mode: if RA is
\* stopped it starts RA at the selected period, and if RA is running it only
\* updates the target period and leaves stopSpeed[RA] >= the new target, so
\* that an ST4 update on its own never makes RA decelerate to a halt.
ST4KeepsRARunning ==
    [][ST4Handled =>
          LET m == mot["RA"]  n == mot'["RA"]
          IN  /\ n.currentIVal \in ST4RAPeriods
              /\ m.stopped =>
                    /\ ~n.stopped /\ TickEnabled(n)
                    /\ n.currentMotorSpeed <= n.stopSpeed
              /\ ~m.stopped =>
                    /\ n = [m EXCEPT !.currentIVal = n.currentIVal,
                                     !.stopSpeed = Greatest(m.stopSpeed,
                                                            n.currentIVal)]
                    /\ n.stopSpeed >= n.currentIVal]_vars

\* the step is a K or L command that stopped the running axis
StopActs(a) ==
    /\ budget'.live # budget.live
    /\ ~mot[a].stopped
    /\ hist'[a].kStop \/ hist'[a].lStop

\* C36: after stop(axis, emergency) of either kind has acted on an axis,
\* gotoRunning and gotoEn are clear and the mode selector GVal denotes a
\* slew (odd), so that a later J without an intervening G starts a slew.
StopLeavesSlewMode ==
    [][\A a \in Axes :
          StopActs(a) =>
             /\ ~mot'[a].gotoRunning /\ ~mot'[a].gotoEn
             /\ mot'[a].GVal % 2 = 1]_vars

\* C37: gotoEn[axis] is set only while a goto is pending or in progress: in
\* every reachable state gotoEn[axis] implies readyToGo[axis] = 1 or
\* gotoRunning[axis], so a J that is later cancelled by G, H, I or K never
\* leaves gotoEn set.
GotoEnOnlyWhilePending ==
    \A a \in Axes :
        mot[a].gotoEn => (mot[a].readyToGo = 1 \/ mot[a].gotoRunning)

(***************************************************************************)
(* SpecHalt: slews and gotos of one axis whose period comes from the whole *)
(* range of the 16-bit word, stopped gracefully while they run.  A         *)
(* countdown longer than the ST4 periods is not followed.                  *)
(***************************************************************************)
HaltIValues == IValues \cup {65534, 65535}

InitHalt ==
    InitWith(SpecTables, {TopPeriod - 1}, {TopPeriod}, {TRUE},
             { [host |-> MaxHostCmds, st4 |-> 0, live |-> MaxLiveCmds,
                axes |-> {a}] : a \in Axes })

HaltSetup ==
    /\ budget.host > 0
    /\ \E a \in budget.axes :
          /\ AtRest(a)
          /\ \/ \E mode \in {0, 1} : CmdG(a, mode, "CMD_FORWARD")
             \/ \E v \in HaltIValues : CmdI(a, v)
             \/ CmdJ(a)
    /\ Spend("host")

HaltLive ==
    /\ budget.live > 0
    /\ \E a \in budget.axes : ~mot[a].stopped /\ CmdK(a)
    /\ Spend("live")

NextHalt ==
    \/ TimersST4
    \/ MainLoop
    \/ HaltSetup
    \/ HaltLive

SpecHalt == InitHalt /\ [][NextHalt]_vars

\* the step is a graceful stop of the running axis
GracefulStopActs(a) ==
    /\ budget'.live # budget.live
    /\ ~mot[a].stopped

\* the tick of this step latches the deceleration of the goto
LatchingPulse(a) ==
    /\ TickStep(a)
    /\ ~mot[a].gotoDecelerating /\ mot'[a].gotoDecelerating

\* C38: whenever the firmware forces a halt by setting the target period to
\* stopSpeed + 1 (graceful stop, goto deceleration latch), the resulting
\* 16-bit target is strictly greater than stopSpeed for every stopSpeed
\* value the axis can hold, including 65535.
HaltTargetAboveStopSpeed ==
    [][\A a \in Axes :
          (GracefulStopActs(a) \/ LatchingPulse(a))
             => mot'[a].currentIVal > mot'[a].stopSpeed]_vars

\* C39: a start() call on a running axis never loses a step engine update:
\* the currentSpeed it writes is the value the engine holds at the moment of
\* the write (or stopSpeed), never a value sampled before a timer tick that
\* changed currentSpeed in between, and an axis the engine stopped in between
\* is not re-armed.
StartKeepsEngineUpdate ==
    [][\A a \in Axes :
          StartCommits(a) =>
             /\ mot'[a].currentMotorSpeed
                   \in {mot[a].currentMotorSpeed, mot'[a].stopSpeed}
             /\ mot[a].stopped /\ ~mot'[a].stopped
                   => mot'[a].currentMotorSpeed = mot'[a].stopSpeed]_vars

(***************************************************************************)
(* SpecGear: the configuration utility stores the step mode (D) and the    *)
(* gear change setting (Q) at run time, and the host starts slews and      *)
(* gotos of one axis.                                                      *)
(***************************************************************************)
GearStepModes == {4, 16}

\* 'Q': axis 1 stores disableGearChange, axis 0 allowAdvancedHCDetection
CmdQ(a, v) ==
    /\ fg.pc = "idle"
    /\ sys' = IF a = "DC"
              THEN [sys EXCEPT !.disableGearChange = (U8(v) # 0),
                               !.response = [error |-> FALSE, data |-> 0]]
              ELSE [sys EXCEPT !.allowAdvancedHCDetection = (U8(v) # 0),
                               !.response = [error |-> FALSE, data |-> 0]]
    /\ fg' = afterCmd(mot)
    /\ UNCHANGED << mot, hist, engineCfg >>

InitGear ==
    InitWith(SpecTables, {TopPeriod - 1}, {TopPeriod}, {TRUE, FALSE},
             { [host |-> MaxHostCmds - 1, st4 |-> 0, live |-> 0,
                conf |-> MaxHostCmds - 1, axes |-> {"RA"}] })

GearHost ==
    /\ budget.host > 0
    /\ \E a \in budget.axes :
          /\ AtRest(a)
          /\ \/ \E mode \in GModes : CmdG(a, mode, "CMD_FORWARD")
             \/ CmdJ(a)
    /\ Spend("host")

GearConfig ==
    /\ budget.conf > 0
    /\ \/ \E v \in GearStepModes : CmdD("DC", v)
       \/ \E v \in {0, 1} : CmdQ("DC", v)
    /\ Spend("conf")

NextGear ==
    \/ TimersST4
    \/ MainLoop
    \/ GearHost
    \/ GearConfig

SpecGear == InitGear /\ [][NextGear]_vars

\* gear change is possible and allowed
GearChangeAllowed == sys.microstepConf >= 8 /\ ~sys.disableGearChange

\* C40: high-speed mode is selected only when gear change is allowed: in
\* every reachable state canJumpToHighspeed equals (microstepConf >= 8 and
\* gear change not disabled), and no step sets highSpeedMode while gear
\* change is disabled or the microstep count is below 8, also after D and Q
\* commands received at run time.
HighSpeedOnlyWhenAllowed ==
    /\ [](canJumpToHighspeed = GearChangeAllowed)
    /\ [][\A a \in Axes :
             (mot'[a].highSpeedMode /\ ~mot[a].highSpeedMode)
                => GearChangeAllowed]_vars

====
